---- MODULE Spec2Model ----
(***************************************************************************)
(* spec2llms: OpenAPI description -> llms.txt documentation set.           *)
(*                                                                         *)
(* Go strings are TLA+ strings; the functions of package strings and sort  *)
(* are operators over them.  Go maps are functions; the order in which a   *)
(* `for k := range m` visits the keys is not fixed by the language, so     *)
(* every operator that ranges over a map takes the visiting order `ord`    *)
(* (a sequence holding every key once) as an explicit argument.            *)
(* Characters outside ASCII in literals of the source are written in       *)
(* ASCII: the em dash as "--", the check mark as "v", the warning sign as  *)
(* "(!)"; the back quote, which a TLA+ string cannot hold, as "'".         *)
(***************************************************************************)
EXTENDS Integers, Sequences, FiniteSets, TLC

VARIABLES
    schema,     \* renderer: the *parser.Schema handed to the renderer
    docDepth,   \* renderer: the depth argument of the generateSchemaDoc calls
    exOut,      \* renderer: texts returned by successive renderJSONSchema calls
    tblOut,     \* renderer: texts returned by successive generateFieldsTable calls
    docOut,     \* renderer: texts returned by successive generateSchemaDoc calls
    graph,      \* call walk: the schema nodes, addressed by pointer (0 is nil)
    stack,      \* call walk: the active calls of the renderer, outermost first
    walkPc,     \* call walk: "running", "returned" or "stack overflow"
    api,        \* composer: the *parser.API of the Generator (g.api)
    called,     \* composer: the functions called so far
    endpoints,  \* composer: the slice returned by sortEndpoints
    grouped,    \* composer: the map returned by groupByTags
    cfg,        \* composer: the *config.Config of the Generator (g.cfg)
    endpoint,   \* documents: the parser.Endpoint being documented
    epOut,      \* documents: texts returned by successive generateEndpoint calls
    curlOut,    \* documents: texts returned by successive generateCurlExample calls
    genPc,      \* Generate: "idle", "start", "write", "done" or "failed"
    files,      \* Generate: the files on disk, path -> content
    visited,    \* Generate: the loop iterations already made
    genErr,     \* Generate: the error returned, "" for nil
    doc,        \* parser: the value handed to the conversion (a document, a
                \* schema or a parameter of package openapi3)
    parsed,     \* parser: outcomes of successive conversions of doc
    cli,        \* command: the arguments, the flags and the config file of a run
    runPc       \* command: the step of run that comes next, or how run ended

renderVars == <<schema, docDepth, exOut, tblOut, docOut>>
walkVars == <<graph, stack, walkPc>>
orderVars == <<api, called, endpoints, grouped>>
docVars == <<cfg, endpoint, epOut, curlOut>>
genVars == <<genPc, files, visited, genErr>>
composeVars == <<docVars, genVars>>
parseVars == <<doc, parsed>>
runVars == <<cli, runPc>>
frontVars == <<parseVars, runVars>>
vars == <<renderVars, walkVars, orderVars, composeVars, frontVars>>

(***************************************************************************)
(* Bounds of the model.                                                    *)
(***************************************************************************)
MaxRuns == 2        \* how many times one operation is repeated on one input
MaxNest == 10       \* deepest chain of nested objects / arrays in a schema
MaxEndpoints == 3   \* most endpoints of an API
StackLimit == 40    \* active calls the goroutine stack holds before the run-time
                    \* aborts the program with "stack overflow"

(***************************************************************************)
(* package strings, package sort                                           *)
(***************************************************************************)
Min(S) == CHOOSE x \in S : \A y \in S : x <= y

Max(S) == CHOOSE x \in S : \A y \in S : x >= y

\* the printable ASCII characters of codes 32..95 and of codes 97..126
AsciiLow == " !\"#$%&'()*+,-./0123456789:;<=>?@ABCDEFGHIJKLMNOPQRSTUVWXYZ[\\]^_"

AsciiHigh == "abcdefghijklmnopqrstuvwxyz{|}~"

\* the i-th character of s, "" past its end
CharAt(s, i) == IF i \in 1..Len(s) THEN SubSeq(s, i, i) ELSE ""

\* first position >= 1 at which sub occurs in s, 0 when it does not occur
Index(s, sub) ==
    LET cands == {i \in 1..(Len(s) - Len(sub) + 1) : SubSeq(s, i, i + Len(sub) - 1) = sub}
    IN  IF cands = {} THEN 0 ELSE Min(cands)

\* byte value of a one-character string (the line feed is the only control
\* character the program writes)
Ord(c) ==
    IF c = "\n" THEN 10
    ELSE IF Index(AsciiLow, c) > 0 THEN 31 + Index(AsciiLow, c)
    ELSE 96 + Index(AsciiHigh, c)

\* Go's < on strings: byte-wise lexicographic
StrLess(s, t) ==
    LET n == IF Len(s) < Len(t) THEN Len(s) ELSE Len(t)
        d == {i \in 1..n : CharAt(s, i) # CharAt(t, i)}
    IN  IF d = {} THEN Len(s) < Len(t)
        ELSE Ord(CharAt(s, Min(d))) < Ord(CharAt(t, Min(d)))

HasPrefix(s, p) == Len(s) >= Len(p) /\ SubSeq(s, 1, Len(p)) = p

HasSuffix(s, p) == Len(s) >= Len(p) /\ SubSeq(s, Len(s) - Len(p) + 1, Len(s)) = p

TrimPrefix(s, p) == IF HasPrefix(s, p) THEN SubSeq(s, Len(p) + 1, Len(s)) ELSE s

TrimSuffix(s, p) == IF HasSuffix(s, p) THEN SubSeq(s, 1, Len(s) - Len(p)) ELSE s

RECURSIVE ReplaceAll(_, _, _)
ReplaceAll(s, old, new) ==
    LET i == Index(s, old)
    IN  IF old = "" \/ i = 0 THEN s
        ELSE SubSeq(s, 1, i - 1) \o new
             \o ReplaceAll(SubSeq(s, i + Len(old), Len(s)), old, new)

ToLowerChar(c) ==
    IF Ord(c) \in 65..90 THEN CharAt(AsciiHigh, Ord(c) + 32 - 96) ELSE c

RECURSIVE ToLower(_)
ToLower(s) ==
    IF s = "" THEN "" ELSE ToLowerChar(CharAt(s, 1)) \o ToLower(SubSeq(s, 2, Len(s)))

\* strings.Split with a non-empty separator: Split("", sep) is <<"">>
RECURSIVE Split(_, _)
Split(s, sep) ==
    LET i == Index(s, sep)
    IN  IF i = 0 THEN <<s>>
        ELSE <<SubSeq(s, 1, i - 1)>> \o Split(SubSeq(s, i + Len(sep), Len(s)), sep)

RECURSIVE Join(_, _)
Join(elems, sep) ==
    IF Len(elems) = 0 THEN ""
    ELSE IF Len(elems) = 1 THEN elems[1]
    ELSE elems[1] \o sep \o Join(Tail(elems), sep)

RECURSIVE Repeat(_, _)
Repeat(s, n) == IF n <= 0 THEN "" ELSE s \o Repeat(s, n - 1)

\* concatenation of the strings of a sequence (successive WriteString calls)
RECURSIVE Concat(_)
Concat(elems) == IF Len(elems) = 0 THEN "" ELSE elems[1] \o Concat(Tail(elems))

RECURSIVE InsertSorted(_, _)
InsertSorted(sorted, s) ==
    IF Len(sorted) = 0 THEN <<s>>
    ELSE IF StrLess(s, sorted[1]) THEN <<s>> \o sorted
    ELSE <<sorted[1]>> \o InsertSorted(Tail(sorted), s)

\* (mutant) the sort left out: the names stay in the order they were collected
SortStrings_omitted(elems) == elems

\* sort.Strings: ascending in Go's string order
RECURSIVE SortStrings(_)
SortStrings(elems) ==
    IF Len(elems) = 0 THEN <<>>
    ELSE InsertSorted(SortStrings(Tail(elems)), elems[1])

\* the keys of map m in the order a `range` loop visits them
MapKeys(m, ord) == SelectSeq(ord, LAMBDA k : k \in DOMAIN m)

\* every arrangement of the elements of S in a sequence
Perms(S) ==
    {f \in [1..Cardinality(S) -> S] : \A x \in S : \E i \in 1..Cardinality(S) : f[i] = x}

(***************************************************************************)
(* Data model (package parser).  A nil pointer, a nil interface value and  *)
(* an absent optional field are Nil; a nil or empty map is <<>>.           *)
(***************************************************************************)
Nil == [nil |-> TRUE]

\* parser.Schema (the fields the generator reads)
Schema(type, format, props, items, enum, example) ==
    [Type |-> type, Format |-> format, Description |-> "", Properties |-> props,
     Items |-> items, Enum |-> enum, Example |-> example]

\* a value of Go's `any` holding a string, a number or a bool
ExStr(s) == [kind |-> "string", v |-> s]

ExNum(n) == [kind |-> "number", v |-> n]

ExBool(b) == [kind |-> "bool", v |-> b]

\* len(m) of a map
MapLen(m) == Cardinality(DOMAIN m)

(***************************************************************************)
(* Schema renderer (internal/generator/generator.go)                       *)
(***************************************************************************)
maxNestedDepth == 4

\* fmt.Sprintf("%v", v) of a string, an integral number or a bool
FormatV(example) ==
    CASE example.kind = "string" -> example.v
      [] example.kind = "number" -> ToString(example.v)
      [] example.kind = "bool" -> IF example.v THEN "true" ELSE "false"

formatExample(example) ==
    IF example.kind = "string" THEN "\"" \o example.v \o "\""
    ELSE FormatV(example)

\* (mutant) a number without example is shown as 0
RECURSIVE getTypeExample_numberAsInteger(_)
getTypeExample_numberAsInteger(s) ==
    IF s = Nil THEN "null"
    ELSE IF s.Example # Nil THEN formatExample(s.Example)
    ELSE IF Len(s.Enum) > 0 THEN "\"" \o s.Enum[1] \o "\""
    ELSE CASE s.Type = "string" ->
                IF s.Format = "date-time" THEN "\"2024-01-15T10:00:00Z\""
                ELSE IF s.Format = "date" THEN "\"2024-01-15\""
                ELSE IF s.Format = "email" THEN "\"user@example.com\""
                ELSE IF s.Format = "uri" \/ s.Format = "url" THEN "\"https://example.com\""
                ELSE "\"string\""
           [] s.Type = "integer" -> "0"
           [] s.Type = "number" -> "0"
           [] s.Type = "boolean" -> "true"
           [] s.Type = "array" ->
                IF s.Items # Nil THEN "[" \o getTypeExample_numberAsInteger(s.Items) \o "]"
                ELSE "[]"
           [] s.Type = "object" -> "{}"
           [] s.Type = "" -> "{}"
           [] OTHER -> "null"

RECURSIVE getTypeExample(_)
getTypeExample(s) ==
    IF s = Nil THEN "null"
    ELSE IF s.Example # Nil THEN formatExample(s.Example)
    ELSE IF Len(s.Enum) > 0 THEN "\"" \o s.Enum[1] \o "\""
    ELSE CASE s.Type = "string" ->
                IF s.Format = "date-time" THEN "\"2024-01-15T10:00:00Z\""
                ELSE IF s.Format = "date" THEN "\"2024-01-15\""
                ELSE IF s.Format = "email" THEN "\"user@example.com\""
                ELSE IF s.Format = "uri" \/ s.Format = "url" THEN "\"https://example.com\""
                ELSE "\"string\""
           [] s.Type = "integer" -> "0"
           [] s.Type = "number" -> "0.0"
           [] s.Type = "boolean" -> "true"
           [] s.Type = "array" ->
                IF s.Items # Nil THEN "[" \o getTypeExample(s.Items) \o "]" ELSE "[]"
           [] s.Type = "object" -> "{}"
           [] s.Type = "" -> "{}"
           [] OTHER -> "null"

\* the names of the properties, collected by ranging over the map and sorted
PropNames(s, ord) == SortStrings(MapKeys(s.Properties, ord))

RECURSIVE renderJSONSchema(_, _, _, _)
RECURSIVE renderPropertyValue(_, _, _, _)
\* (mutant) a property value that is empty is written as it is
renderJSONSchema_noFallback(ord, s, indent, maxDepth) ==
    IF s = Nil \/ indent > maxDepth * 2 THEN ""
    ELSE
    LET prefix == Repeat("  ", indent)
        props == PropNames(s, ord)
        entry(i) ==
            LET name == props[i]
                prop == s.Properties[name]
                comma == IF i = Len(props) THEN "" ELSE ","
                value == renderPropertyValue(ord, prop, indent + 1, maxDepth)
                shown == value
            IN  prefix \o "  \"" \o name \o "\": " \o shown \o comma \o "\n"
    IN  IF s.Type = "object" /\ MapLen(s.Properties) > 0
        THEN "{\n" \o Concat([i \in 1..Len(props) |-> entry(i)]) \o prefix \o "}"
        ELSE IF s.Type = "array"
        THEN IF s.Items # Nil /\ s.Items.Type = "object" /\ MapLen(s.Items.Properties) > 0
             THEN "[\n" \o prefix \o "  "
                  \o renderJSONSchema(ord, s.Items, indent + 1, maxDepth)
                  \o "\n" \o prefix \o "]"
             ELSE IF s.Items # Nil
             THEN "[" \o getTypeExample(s.Items) \o "]"
             ELSE "[]"
        ELSE IF s.Type = "object" THEN "{}"
        ELSE getTypeExample(s)

renderJSONSchema(ord, s, indent, maxDepth) ==
    IF s = Nil \/ indent > maxDepth * 2 THEN ""
    ELSE
    LET prefix == Repeat("  ", indent)
        props == PropNames(s, ord)
        entry(i) ==
            LET name == props[i]
                prop == s.Properties[name]
                comma == IF i = Len(props) THEN "" ELSE ","
                value == renderPropertyValue(ord, prop, indent + 1, maxDepth)
                shown == IF value # "" THEN value
                         ELSE IF prop.Type = "array" THEN "[{}]"
                         ELSE IF prop.Type = "object" THEN "{}"
                         ELSE "null"
            IN  prefix \o "  \"" \o name \o "\": " \o shown \o comma \o "\n"
    IN  IF s.Type = "object" /\ MapLen(s.Properties) > 0
        THEN "{\n" \o Concat([i \in 1..Len(props) |-> entry(i)]) \o prefix \o "}"
        ELSE IF s.Type = "array"
        THEN IF s.Items # Nil /\ s.Items.Type = "object" /\ MapLen(s.Items.Properties) > 0
             THEN "[\n" \o prefix \o "  "
                  \o renderJSONSchema(ord, s.Items, indent + 1, maxDepth)
                  \o "\n" \o prefix \o "]"
             ELSE IF s.Items # Nil
             THEN "[" \o getTypeExample(s.Items) \o "]"
             ELSE "[]"
        ELSE IF s.Type = "object" THEN "{}"
        ELSE getTypeExample(s)

\* (mutant) an array property without items is rendered as []
renderPropertyValue_emptyArray(ord, prop, indent, maxDepth) ==
    IF prop = Nil THEN "null"
    ELSE IF prop.Example # Nil THEN formatExample(prop.Example)
    ELSE IF prop.Type = "object" /\ MapLen(prop.Properties) > 0 /\ indent < maxDepth * 2
    THEN renderJSONSchema(ord, prop, indent, maxDepth)
    ELSE IF prop.Type = "array"
    THEN IF prop.Items # Nil
         THEN IF prop.Items.Type = "object" /\ MapLen(prop.Items.Properties) > 0
              THEN renderJSONSchema(ord, prop, indent, maxDepth)
              ELSE LET example == getTypeExample(prop.Items)
                       shown == IF example = "" \/ example = "null" THEN "{}" ELSE example
                   IN  "[" \o shown \o "]"
         ELSE "[]"
    ELSE LET result == getTypeExample(prop)
         IN  IF result = "" THEN "null" ELSE result

renderPropertyValue(ord, prop, indent, maxDepth) ==
    IF prop = Nil THEN "null"
    ELSE IF prop.Example # Nil THEN formatExample(prop.Example)
    ELSE IF prop.Type = "object" /\ MapLen(prop.Properties) > 0 /\ indent < maxDepth * 2
    THEN renderJSONSchema(ord, prop, indent, maxDepth)
    ELSE IF prop.Type = "array"
    THEN IF prop.Items # Nil
         THEN IF prop.Items.Type = "object" /\ MapLen(prop.Items.Properties) > 0
              THEN renderJSONSchema(ord, prop, indent, maxDepth)
              ELSE LET example == getTypeExample(prop.Items)
                       shown == IF example = "" \/ example = "null" THEN "{}" ELSE example
                   IN  "[" \o shown \o "]"
         ELSE "[{}]"
    ELSE LET result == getTypeExample(prop)
         IN  IF result = "" THEN "null" ELSE result

\* what a call yields when it dereferences a nil pointer: the run-time panic
\* unwinds every caller, so a caller that receives Panic returns Panic
Panic == "panic: runtime error: invalid memory address or nil pointer dereference"

\* (mutant) the format is appended to the type of an array with items too
generateFieldsTable_formatLast(ord, s, prefix) ==
    IF s = Nil \/ MapLen(s.Properties) = 0 THEN ""
    ELSE IF \E name \in DOMAIN s.Properties : s.Properties[name] = Nil
    THEN Panic
    ELSE
    LET props == PropNames(s, ord)
        row(i) ==
            LET name == props[i]
                prop == s.Properties[name]
                fieldName == IF prefix # "" THEN prefix \o "." \o name ELSE name
                typeArr == IF prop.Type = "array" /\ prop.Items # Nil
                           THEN "array[" \o prop.Items.Type \o "]"
                           ELSE prop.Type
                typeStr == IF prop.Format # "" THEN typeArr \o " (" \o prop.Format \o ")"
                           ELSE typeArr
                desc == IF Len(prop.Enum) > 0
                        THEN prop.Description \o " Values: '" \o Join(prop.Enum, "', '") \o "'"
                        ELSE prop.Description
            IN  "| " \o fieldName \o " | " \o typeStr \o " | " \o desc \o " |\n"
    IN  "| Field | Type | Description |\n"
        \o "|-------|------|-------------|\n"
        \o Concat([i \in 1..Len(props) |-> row(i)])
        \o "\n"

generateFieldsTable(ord, s, prefix) ==
    IF s = Nil \/ MapLen(s.Properties) = 0 THEN ""
    ELSE IF \E name \in DOMAIN s.Properties : s.Properties[name] = Nil
    THEN Panic      \* prop.Type of a nil prop
    ELSE
    LET props == PropNames(s, ord)
        row(i) ==
            LET name == props[i]
                prop == s.Properties[name]
                fieldName == IF prefix # "" THEN prefix \o "." \o name ELSE name
                typeFmt == IF prop.Format # "" THEN prop.Type \o " (" \o prop.Format \o ")"
                           ELSE prop.Type
                typeStr == IF prop.Type = "array" /\ prop.Items # Nil
                           THEN "array[" \o prop.Items.Type \o "]"
                           ELSE typeFmt
                desc == IF Len(prop.Enum) > 0
                        THEN prop.Description \o " Values: '" \o Join(prop.Enum, "', '") \o "'"
                        ELSE prop.Description
            IN  "| " \o fieldName \o " | " \o typeStr \o " | " \o desc \o " |\n"
    IN  "| Field | Type | Description |\n"
        \o "|-------|------|-------------|\n"
        \o Concat([i \in 1..Len(props) |-> row(i)])
        \o "\n"

\* generateSchemaDoc without the descent into the items of an array
generateSchemaDoc_noItems(ord, s, depth) ==
    IF s = Nil \/ depth > 4 THEN ""
    ELSE IF s.Type = "object" /\ MapLen(s.Properties) > 0
    THEN LET table == generateFieldsTable(ord, s, "")
         IN  IF table = Panic THEN Panic
             ELSE "'''json\n" \o renderJSONSchema(ord, s, 0, maxNestedDepth) \o "'''\n\n"
                  \o table
    ELSE IF s.Type = "array" /\ s.Items # Nil
    THEN "Array of '" \o (IF s.Items.Type = "" THEN "object" ELSE s.Items.Type) \o "'\n\n"
    ELSE ""

RECURSIVE generateSchemaDoc(_, _, _)
generateSchemaDoc(ord, s, depth) ==
    IF s = Nil \/ depth > 4 THEN ""
    ELSE IF s.Type = "object" /\ MapLen(s.Properties) > 0
    THEN LET table == generateFieldsTable(ord, s, "")
         IN  IF table = Panic THEN Panic
             ELSE "'''json\n" \o renderJSONSchema(ord, s, 0, maxNestedDepth) \o "'''\n\n"
                  \o table
    ELSE IF s.Type = "array" /\ s.Items # Nil
    THEN LET itemType == IF s.Items.Type = "" THEN "object" ELSE s.Items.Type
             inner == IF s.Items.Type = "object" /\ MapLen(s.Items.Properties) > 0
                      THEN generateSchemaDoc(ord, s.Items, depth + 1) ELSE ""
         IN  IF inner = Panic THEN Panic
             ELSE "Array of '" \o itemType \o "'\n\n" \o inner
    ELSE ""

(***************************************************************************)
(* Inputs of the renderer: the schemas the model hands to it.              *)
(***************************************************************************)
PropKeys == {"a", "b", "ab", "B"}

Prim(type, format) == Schema(type, format, <<>>, Nil, <<>>, Nil)

Obj(props) == Schema("object", "", props, Nil, <<>>, Nil)

Arr(items) == Schema("array", "", <<>>, items, <<>>, Nil)

LeafSchemas ==
    { Prim("string", ""), Prim("string", "email"), Prim("integer", ""),
      Prim("", ""), Prim("object", ""), Prim("array", ""), Prim("file", ""),
      Arr(Prim("string", "")),
      Schema("string", "", <<>>, Nil, <<"x", "y">>, Nil),
      Schema("integer", "", <<>>, Nil, <<>>, ExNum(7)),
      Schema("string", "", <<>>, Nil, <<>>, ExStr("s")) }

\* objects with one to four properties of primitive type
WideSchemas ==
    { Obj([n \in N |-> IF n = "B" THEN Prim("integer", "") ELSE Prim("string", "")]) :
        N \in (SUBSET PropKeys) \ {{}} }

\* objects whose properties are objects and arrays of objects
NestedSchemas ==
    { Obj([n \in {"b", "a"} |->
            IF n = "b" THEN Obj([m \in {"b", "a", "B"} |-> Prim("string", "email")])
            ELSE Arr(Obj([m \in {"ab", "a"} |-> Prim("integer", "")]))]),
      Arr(Obj([n \in {"b", "B"} |-> Obj([m \in {"ab", "b"} |-> Prim("boolean", "")])])),
      Obj([n \in {"ab", "a"} |-> IF n = "a" THEN Nil ELSE Arr(Prim("string", "date"))]) }

\* a chain of containers, outermost first: "obj" is an object with the one
\* property "a", "arr" an array; the innermost container holds leaf
RECURSIVE Chain(_, _)
Chain(kinds, leaf) ==
    IF Len(kinds) = 0 THEN leaf
    ELSE IF kinds[1] = "obj" THEN Obj([n \in {"a"} |-> Chain(Tail(kinds), leaf)])
    ELSE Arr(Chain(Tail(kinds), leaf))

ChainKinds(k) ==
    { [i \in 1..k |-> "obj"],
      [i \in 1..k |-> "arr"],
      [i \in 1..k |-> IF i % 2 = 1 THEN "obj" ELSE "arr"],
      [i \in 1..k |-> IF i % 2 = 1 THEN "arr" ELSE "obj"] }

DeepSchemas ==
    { Chain(kinds, leaf) : kinds \in UNION { ChainKinds(k) : k \in 1..MaxNest },
                           leaf \in {Prim("string", ""), Prim("object", "")} }

\* schemas with an explicit example on an object with properties, on an array
\* of objects and on a boolean, at the root and as a property
ExampleSchemas ==
    LET inner == [n \in {"b"} |-> Prim("integer", "")]
        object == Schema("object", "", inner, Nil, <<>>, ExStr("whole"))
        array == Schema("array", "", <<>>, Obj(inner), <<>>, ExNum(1))
        boolean == Schema("boolean", "", <<>>, Nil, <<>>, ExBool(FALSE))
    IN  { object, array, boolean,
          Obj([n \in {"a", "ab", "B"} |->
                IF n = "a" THEN object ELSE IF n = "ab" THEN array ELSE boolean]) }

\* arrays without items, of an unknown type, of a primitive and of objects,
\* at the root and as properties
ArraySchemas ==
    LET unknown == Arr(Prim("file", ""))
    IN  { unknown,
          Obj([n \in PropKeys |->
                CASE n = "a" -> Prim("array", "")
                  [] n = "ab" -> unknown
                  [] n = "b" -> Arr(Prim("integer", ""))
                  [] n = "B" -> Arr(Obj([m \in {"b"} |-> Prim("boolean", "")]))]) }

\* the types and formats getTypeExample tells apart, alone and as the items
\* of an array
TypeSchemas ==
    { Prim("string", "date-time"), Prim("string", "date"), Prim("string", "uri"),
      Prim("string", "url"), Prim("number", ""), Prim("boolean", ""),
      Schema("integer", "", <<>>, Nil, <<"1", "2">>, Nil),
      Arr(Prim("number", "")), Arr(Prim("object", "")), Arr(Prim("array", "")),
      Arr(Arr(Prim("boolean", ""))) }

\* an array of objects that is a property of the object at indent 8, the last
\* indent renderJSONSchema renders: objects and arrays of objects in turn
CeilingSchemas ==
    { Chain([i \in 1..11 |-> IF i % 2 = 1 THEN "obj" ELSE "arr"], Prim("string", "")) }

\* objects whose properties carry a format, an enum, a description, items
\* and properties of their own
TableSchemas ==
    { Obj([n \in PropKeys |->
            CASE n = "a" -> [Schema("string", "", <<>>, Nil, <<"asc", "desc">>, Nil)
                                EXCEPT !.Description = "Sort order"]
              [] n = "ab" -> Schema("array", "csv", <<>>, Prim("integer", ""), <<>>, Nil)
              [] n = "b" -> Schema("array", "csv", <<>>, Nil, <<>>, Nil)
              [] n = "B" -> Obj([m \in {"a"} |-> Prim("string", "email")])]),
      Obj([n \in {"a", "b"} |->
            IF n = "a" THEN Schema("string", "email", <<>>, Nil, <<"x">>, Nil)
            ELSE Arr(Obj([m \in {"ab"} |-> Prim("boolean", "")]))]) }

RenderSchemas ==
    {Nil} \cup LeafSchemas \cup WideSchemas \cup NestedSchemas \cup DeepSchemas
        \cup ExampleSchemas \cup ArraySchemas \cup TypeSchemas \cup CeilingSchemas
        \cup TableSchemas

\* the schemas generateSchemaDoc is also called on at a depth other than 0
DocSchemas ==
    { Nil, Prim("string", ""), Obj([n \in {"b", "a"} |-> Prim("string", "")]),
      Arr(Prim("", "")), Arr(Obj([n \in {"b", "a"} |-> Prim("integer", "")])) }

\* the depth generateEndpoint passes (0) and the depths around the ceiling
DocDepths == {0, 4, 5}

RenderCalls ==
    { [schema |-> s, depth |-> 0] : s \in RenderSchemas }
        \cup { [schema |-> s, depth |-> d] : s \in DocSchemas, d \in DocDepths }

\* the orders in which a range loop may visit the keys of a property map
RangeOrders ==
    { <<"B", "a", "ab", "b">>, <<"b", "ab", "a", "B">>,
      <<"a", "b", "ab", "B">>, <<"ab", "B", "b", "a">> }

(***************************************************************************)
(* Renderer as a state machine: one schema, rendered repeatedly; each      *)
(* call ranges over the property maps in an order of its own.              *)
(***************************************************************************)
\* the renderer machine is not running
RenderIdle == schema = Nil /\ docDepth = 0 /\ exOut = <<>> /\ tblOut = <<>> /\ docOut = <<>>

\* the call walk is not running
WalkIdle == graph = <<>> /\ stack = <<>> /\ walkPc = "idle"

\* the composer is not running
OrderIdle == api = Nil /\ called = {} /\ endpoints = <<>> /\ grouped = <<>>

\* no document is being composed
DocIdle == cfg = Nil /\ endpoint = Nil /\ epOut = <<>> /\ curlOut = <<>>

\* Generate is not running
GenIdle == genPc = "idle" /\ files = <<>> /\ visited = {} /\ genErr = ""

\* nothing is being converted
ParseIdle == doc = Nil /\ parsed = <<>>

\* the command is not running
RunIdle == cli = Nil /\ runPc = "idle"

RenderInit ==
    /\ \E call \in RenderCalls : schema = call.schema /\ docDepth = call.depth
    /\ exOut = <<>>
    /\ tblOut = <<>>
    /\ docOut = <<>>
    /\ WalkIdle /\ OrderIdle /\ DocIdle /\ GenIdle /\ ParseIdle /\ RunIdle

RenderExample ==
    /\ Len(exOut) < MaxRuns
    /\ \E ord \in RangeOrders :
          exOut' = Append(exOut, renderJSONSchema(ord, schema, 0, maxNestedDepth))
    /\ UNCHANGED <<schema, docDepth, tblOut, docOut, walkVars, orderVars, composeVars, frontVars>>

RenderFieldsTable ==
    /\ Len(tblOut) < MaxRuns
    /\ \E ord \in RangeOrders :
          tblOut' = Append(tblOut, generateFieldsTable(ord, schema, ""))
    /\ UNCHANGED <<schema, docDepth, exOut, docOut, walkVars, orderVars, composeVars, frontVars>>

RenderSchemaDoc ==
    /\ Len(docOut) < MaxRuns
    /\ \E ord \in RangeOrders :
          docOut' = Append(docOut, generateSchemaDoc(ord, schema, docDepth))
    /\ UNCHANGED <<schema, docDepth, exOut, tblOut, walkVars, orderVars, composeVars, frontVars>>

RenderNext == RenderExample \/ RenderFieldsTable \/ RenderSchemaDoc

SpecRender == RenderInit /\ [][RenderNext]_vars

(***************************************************************************)
(* Reading a rendered text back: its lines, their indentation, the keys    *)
(* of the objects and the rows of the field table.                         *)
(***************************************************************************)
Lines(text) == Split(text, "\n")

\* number of leading spaces of a line
Indent(line) ==
    LET nonSpace == {i \in 1..Len(line) : CharAt(line, i) # " "}
    IN  IF nonSpace = {} THEN Len(line) ELSE Min(nonSpace) - 1

\* a line of the form <indent>"name": value
IsKeyLine(line) ==
    /\ CharAt(line, Indent(line) + 1) = "\""
    /\ Index(line, "\": ") > 0

KeyOf(line) == SubSeq(line, Indent(line) + 2, Index(line, "\": ") - 1)

\* the keys of the outermost object of an example, in the order of the text
RootKeys(text) ==
    LET keyLines == SelectSeq(Lines(text), LAMBDA l : IsKeyLine(l) /\ Indent(l) = 2)
    IN  [i \in 1..Len(keyLines) |-> KeyOf(keyLines[i])]

\* in every object of the text, each key is smaller than the keys after it
KeysAscending(text) ==
    LET ls == Lines(text)
    IN  \A i, j \in 1..Len(ls) :
            ( /\ i < j
              /\ IsKeyLine(ls[i]) /\ IsKeyLine(ls[j])
              /\ Indent(ls[i]) = Indent(ls[j])
              /\ \A k \in i..j : Indent(ls[k]) >= Indent(ls[i]) )
            => StrLess(KeyOf(ls[i]), KeyOf(ls[j]))

\* the first column of the rows of a field table, in the order of the text
TableFields(text) ==
    LET ls == Lines(text)
        rows == SelectSeq(SubSeq(ls, 3, Len(ls)), LAMBDA l : HasPrefix(l, "| "))
    IN  [i \in 1..Len(rows) |-> SubSeq(rows[i], 3, Index(rows[i], " | ") - 1)]

StrictlyAscending(names) ==
    \A i, j \in 1..Len(names) : i < j => StrLess(names[i], names[j])

\* seq lists every element of set S exactly once
ListsExactly(names, S) ==
    Len(names) = Cardinality(S) /\ {names[i] : i \in 1..Len(names)} = S

\* number of container levels an example expands below its outermost
\* container: the deepest line sits that many levels under the root's lines
ExpandedLevels(text) ==
    LET ls == Lines(text)
        deepest == Max({Indent(ls[i]) : i \in 1..Len(ls)})
    IN  IF deepest = 0 THEN 0 ELSE (deepest \div 2) - 1

IsObjectWithProps(s) == s # Nil /\ s.Type = "object" /\ MapLen(s.Properties) > 0

(***************************************************************************)
(* C1: for every object schema with properties, renderJSONSchema emits     *)
(* the keys in strictly ascending lexicographic order of property name,    *)
(* generateFieldsTable lists its rows in the same order, and rendering     *)
(* the same schema again gives the identical text whatever order the       *)
(* property map is ranged over.                                            *)
(***************************************************************************)
C1_SortedKeysSameText ==
    /\ \A i \in 1..Len(exOut) :
          /\ KeysAscending(exOut[i])
          /\ IsObjectWithProps(schema) =>
                /\ ListsExactly(RootKeys(exOut[i]), DOMAIN schema.Properties)
                /\ StrictlyAscending(RootKeys(exOut[i]))
                /\ \A j \in 1..Len(tblOut) :
                      tblOut[j] # Panic => TableFields(tblOut[j]) = RootKeys(exOut[i])
          /\ exOut[i] = exOut[1]
    /\ \A j \in 1..Len(tblOut) :
          /\ (IsObjectWithProps(schema) /\ tblOut[j] # Panic) =>
                /\ ListsExactly(TableFields(tblOut[j]), DOMAIN schema.Properties)
                /\ StrictlyAscending(TableFields(tblOut[j]))
          /\ tblOut[j] = tblOut[1]
    /\ \A j \in 1..Len(docOut) : docOut[j] = docOut[1]

\* an object with at least three properties was rendered twice, as an
\* example and as a table
C1_Witness ==
    /\ IsObjectWithProps(schema)
    /\ MapLen(schema.Properties) >= 3
    /\ Len(exOut) >= 2 /\ Len(tblOut) >= 2
    /\ Len(RootKeys(exOut[2])) >= 3
    /\ TableFields(tblOut[2]) = RootKeys(exOut[1])

(***************************************************************************)
(* C2: one render call (indent 0, ceiling maxNestedDepth = 4) expands at   *)
(* most 4 levels of nested objects/arrays below the root; what lies        *)
(* deeper is not expanded.                                                 *)
(***************************************************************************)
C2_AtMostFourLevels ==
    \A i \in 1..Len(exOut) : ExpandedLevels(exOut[i]) <= maxNestedDepth

(***************************************************************************)
(* The recursion of the renderer, call by call, over schemas linked by     *)
(* pointers (so that a schema may point back to itself or to an            *)
(* ancestor).  Only the control flow is followed: which function is        *)
(* called on which node with which indent/depth; the text plays no part    *)
(* in it.                                                                  *)
(***************************************************************************)
\* a schema node: Props maps a property name to a pointer, Items is a pointer,
\* Fixed says that the node carries an example or an enum
Node(type, props, items, fixed) ==
    [Type |-> type, Props |-> props, Items |-> items, Fixed |-> fixed]

ObjNode(props) == Node("object", props, 0, FALSE)

ArrNode(items) == Node("array", <<>>, items, FALSE)

StrNode == Node("string", <<>>, 0, FALSE)

WalkGraphs ==
    { \* an object whose property is the object itself
      <<ObjNode([n \in {"a"} |-> 1])>>,
      \* an object whose properties are arrays of that object
      <<ObjNode([n \in {"a", "b"} |-> 2]), ArrNode(1)>>,
      \* an array that is its own items
      <<ArrNode(1)>>,
      \* an object holding two arrays that are each other's items
      <<ObjNode([n \in {"a"} |-> 2]), ArrNode(3), ArrNode(2)>>,
      \* an array of objects, one property pointing back to the array
      <<ArrNode(2), ObjNode([n \in {"a", "b"} |-> IF n = "a" THEN 1 ELSE 3]), StrNode>>,
      \* no cycle: object, array of arrays of strings
      <<ObjNode([n \in {"a", "b"} |-> IF n = "a" THEN 2 ELSE 0]), ArrNode(3), ArrNode(4), StrNode>>,
      \* no cycle: array of objects with an example-carrying property
      <<ArrNode(2), ObjNode([n \in {"a", "b"} |-> IF n = "a" THEN 3 ELSE 4]),
        Node("array", <<>>, 4, TRUE), ObjNode([n \in {"a"} |-> 5]), StrNode>> }

WalkFunctions == {"renderJSONSchema", "renderPropertyValue", "getTypeExample", "generateSchemaDoc"}

\* one active call: arg is indent (renderJSONSchema, renderPropertyValue) or
\* depth (generateSchemaDoc); calls counts the calls it has made so far
Frame(fn, node, arg, calls) == [fn |-> fn, node |-> node, arg |-> arg, calls |-> calls]

Return == [fn |-> "return"]

NodeHasProps(g, n) == n # 0 /\ g[n].Type = "object" /\ MapLen(g[n].Props) > 0

\* the call the active call f makes next, or Return when it has none left
NextCall(g, f) ==
    LET n == f.node
        first(callee) == IF f.calls = 0 THEN callee ELSE Return
    IN
    CASE f.fn = "renderJSONSchema" ->
            IF n = 0 \/ f.arg > maxNestedDepth * 2 THEN Return
            ELSE IF NodeHasProps(g, n)
            THEN LET props == SortStrings(MapKeys(g[n].Props, <<"b", "a">>))
                 IN  IF f.calls < Len(props)
                     THEN Frame("renderPropertyValue", g[n].Props[props[f.calls + 1]], f.arg + 1, 0)
                     ELSE Return
            ELSE IF g[n].Type = "array"
            THEN IF NodeHasProps(g, g[n].Items)
                 THEN first(Frame("renderJSONSchema", g[n].Items, f.arg + 1, 0))
                 ELSE IF g[n].Items # 0
                 THEN first(Frame("getTypeExample", g[n].Items, 0, 0))
                 ELSE Return
            ELSE IF g[n].Type = "object" THEN Return
            ELSE first(Frame("getTypeExample", n, 0, 0))
      [] f.fn = "renderPropertyValue" ->
            IF n = 0 THEN Return
            ELSE IF g[n].Fixed THEN Return
            ELSE IF NodeHasProps(g, n) /\ f.arg < maxNestedDepth * 2
            THEN first(Frame("renderJSONSchema", n, f.arg, 0))
            ELSE IF g[n].Type = "array"
            THEN IF g[n].Items # 0
                 THEN IF NodeHasProps(g, g[n].Items)
                      THEN first(Frame("renderJSONSchema", n, f.arg, 0))
                      ELSE first(Frame("getTypeExample", g[n].Items, 0, 0))
                 ELSE Return
            ELSE first(Frame("getTypeExample", n, 0, 0))
      [] f.fn = "getTypeExample" ->
            IF n = 0 THEN Return
            ELSE IF g[n].Fixed THEN Return
            ELSE IF g[n].Type = "array" /\ g[n].Items # 0
            THEN first(Frame("getTypeExample", g[n].Items, 0, 0))
            ELSE Return
      [] f.fn = "generateSchemaDoc" ->
            IF n = 0 \/ f.arg > 4 THEN Return
            ELSE IF NodeHasProps(g, n)
            THEN first(Frame("renderJSONSchema", n, 0, 0))
            ELSE IF g[n].Type = "array" /\ g[n].Items # 0 /\ NodeHasProps(g, g[n].Items)
            THEN first(Frame("generateSchemaDoc", g[n].Items, f.arg + 1, 0))
            ELSE Return

Top == stack[Len(stack)]

\* a caller outside the renderer calls one of its functions on a node
WalkInit ==
    /\ graph \in WalkGraphs
    /\ \E fn \in WalkFunctions, n \in DOMAIN graph : stack = <<Frame(fn, n, 0, 0)>>
    /\ walkPc = "running"
    /\ RenderIdle /\ OrderIdle /\ DocIdle /\ GenIdle /\ ParseIdle /\ RunIdle

\* the active call calls a function
WalkCall ==
    /\ walkPc = "running"
    /\ NextCall(graph, Top) # Return
    /\ Len(stack) < StackLimit
    /\ stack' = Append([stack EXCEPT ![Len(stack)].calls = @ + 1], NextCall(graph, Top))
    /\ UNCHANGED <<graph, walkPc, renderVars, orderVars, composeVars, frontVars>>

\* the active call calls a function and the stack is exhausted
WalkOverflow ==
    /\ walkPc = "running"
    /\ NextCall(graph, Top) # Return
    /\ Len(stack) = StackLimit
    /\ walkPc' = "stack overflow"
    /\ UNCHANGED <<graph, stack, renderVars, orderVars, composeVars, frontVars>>

\* the active call returns to its caller
WalkReturn ==
    /\ walkPc = "running"
    /\ NextCall(graph, Top) = Return
    /\ stack' = SubSeq(stack, 1, Len(stack) - 1)
    /\ walkPc' = IF Len(stack) = 1 THEN "returned" ELSE "running"
    /\ UNCHANGED <<graph, renderVars, orderVars, composeVars, frontVars>>

WalkNext == WalkCall \/ WalkOverflow \/ WalkReturn

SpecWalk == WalkInit /\ [][WalkNext]_vars

(***************************************************************************)
(* C3: rendering terminates on every schema graph, also on one with a      *)
(* cycle: each call of renderJSONSchema, renderPropertyValue,              *)
(* getTypeExample and generateSchemaDoc returns after finitely many        *)
(* recursive calls.  A call makes at most one call per property (or one    *)
(* call in all), so a walk that does not return is one whose chain of      *)
(* active calls grows without end, which the run-time ends with "stack     *)
(* overflow": the claim is that no walk ends that way.                     *)
(***************************************************************************)
C3_EveryCallReturns == walkPc # "stack overflow"

\* the walks that take StackLimit active calls are runaway ones: every
\* active call at the limit is a getTypeExample on an array caught in a cycle
WalkLimitOnlyByCycle ==
    Len(stack) = StackLimit =>
        \A i \in (StackLimit - 10)..StackLimit :
            stack[i].fn = "getTypeExample" /\ graph[stack[i].node].Type = "array"

(***************************************************************************)
(* Endpoint order and grouping (generator.go sortEndpoints, methodOrder;   *)
(* the tag-grouping generator groupByTags)                                 *)
(***************************************************************************)
\* parser.Endpoint
Endpoint(method, path, tags) ==
    [Method |-> method, Path |-> path, Summary |-> "", Description |-> "",
     Tags |-> tags, Parameters |-> <<>>, RequestBody |-> Nil, Responses |-> <<>>,
     Deprecated |-> FALSE]

\* parser.API
API(eps, tags, schemes) ==
    [Title |-> "Test API", Description |-> "", Version |-> "", BaseURL |-> "",
     Tags |-> tags, Endpoints |-> eps, SecuritySchemes |-> schemes]

\* (mutant) DELETE ranked before GET
methodOrder_deleteFirst(method) ==
    CASE method = "DELETE" -> 1
      [] method = "GET" -> 5
      [] method = "POST" -> 2
      [] method = "PUT" -> 3
      [] method = "PATCH" -> 4
      [] OTHER -> 99

methodOrder(method) ==
    CASE method = "GET" -> 1
      [] method = "POST" -> 2
      [] method = "PUT" -> 3
      [] method = "PATCH" -> 4
      [] method = "DELETE" -> 5
      [] OTHER -> 99

\* the less function handed to sort.Slice
EndpointLess(a, b) ==
    IF a.Path = b.Path THEN methodOrder(a.Method) < methodOrder(b.Method)
    ELSE StrLess(a.Path, b.Path)

\* sort.Slice(s, less) with the less function above: the slice holds the
\* same elements, ordered by less; the sort is not stable, so elements neither
\* of which is less than the other may come out in any order
SortSlice(s) ==
    { r \in { [i \in 1..Len(s) |-> s[p[i]]] : p \in Perms(1..Len(s)) } :
        \A i, j \in 1..Len(r) : i < j => ~EndpointLess(r[j], r[i]) }

\* the results sortEndpoints may return
sortEndpoints(a) == SortSlice(a.Endpoints)

\* m[k] of a map whose value type is a slice: nil for a missing key
MapGet(m, k) == IF k \in DOMAIN m THEN m[k] ELSE <<>>

\* m[k] = v
MapPut(m, k, v) == [x \in (DOMAIN m) \cup {k} |-> IF x = k THEN v ELSE m[x]]

\* (mutant) the endpoint goes into the group of its first tag only
AppendToTags_firstOnly(g, ep, tags) ==
    MapPut(g, tags[1], Append(MapGet(g, tags[1]), ep))

\* for _, tag := range tags { grouped[tag] = append(grouped[tag], ep) }
RECURSIVE AppendToTags(_, _, _)
AppendToTags(g, ep, tags) ==
    IF Len(tags) = 0 THEN g
    ELSE AppendToTags(MapPut(g, tags[1], Append(MapGet(g, tags[1]), ep)), ep, Tail(tags))

\* the first loop of groupByTags, over the endpoints in API order
RECURSIVE CollectGroups(_, _)
CollectGroups(g, eps) ==
    IF Len(eps) = 0 THEN g
    ELSE LET ep == eps[1]
             g1 == IF Len(ep.Tags) = 0
                   THEN MapPut(g, "other", Append(MapGet(g, "other"), ep))
                   ELSE AppendToTags(g, ep, ep.Tags)
         IN  CollectGroups(g1, Tail(eps))

\* the results groupByTags may return: every group sorted by sort.Slice
groupByTags(a) ==
    LET collected == CollectGroups(<<>>, a.Endpoints)
        all == UNION { SortSlice(collected[t]) : t \in DOMAIN collected }
    IN  { g \in [DOMAIN collected -> all] :
            \A t \in DOMAIN collected : g[t] \in SortSlice(collected[t]) }

\* (mutant) sort.Slice runs on g.api.Endpoints itself
apiAfterSortEndpoints_inPlace(a, sorted) == [a EXCEPT !.Endpoints = sorted]

\* g.api once sortEndpoints has returned sorted: sort.Slice has swapped the
\* elements of the copy made with make and copy, not those of g.api.Endpoints
apiAfterSortEndpoints(a, sorted) == a

\* (mutant) the groups are sorted through g.api.Endpoints
apiAfterGroupByTags_shared(a, g) ==
    [a EXCEPT !.Endpoints = CHOOSE sorted \in SortSlice(a.Endpoints) : TRUE]

\* g.api once groupByTags has returned g: the endpoints were appended by
\* value to slices of the new map, and sort.Slice has swapped inside those
apiAfterGroupByTags(a, g) == a

(***************************************************************************)
(* Inputs of the composer.                                                 *)
(***************************************************************************)
SomeEndpoints ==
    { Endpoint("GET", "/users", <<"users">>),
      Endpoint("POST", "/users", <<"other">>),
      Endpoint("PUT", "/users", <<>>),
      Endpoint("PATCH", "/users", <<"users", "orders">>),
      Endpoint("DELETE", "/users", <<"users">>),
      Endpoint("HEAD", "/users", <<>>),
      Endpoint("OPTIONS", "/users", <<>>),
      Endpoint("OPTIONS", "/Orders", <<"orders">>) }

\* every list of at most MaxEndpoints of them
EndpointLists == UNION { [1..n -> SomeEndpoints] : n \in 0..MaxEndpoints }

SomeTags == { <<>>, <<[Name |-> "users", Description |-> "User operations"]>> }

SomeAPIs == { API(eps, <<>>, <<>>) : eps \in EndpointLists }

(***************************************************************************)
(* Ordering and grouping as a state machine: one API, whose endpoints are  *)
(* sorted (generator.go) and grouped by tag (the tag-grouping generator).  *)
(***************************************************************************)
OrderInit ==
    /\ api \in SomeAPIs
    /\ called = {}
    /\ endpoints = <<>>
    /\ grouped = <<>>
    /\ RenderIdle /\ WalkIdle /\ DocIdle /\ GenIdle /\ ParseIdle /\ RunIdle

SortEndpoints ==
    /\ "sortEndpoints" \notin called
    /\ called' = called \cup {"sortEndpoints"}
    /\ endpoints' \in sortEndpoints(api)
    /\ api' = apiAfterSortEndpoints(api, endpoints')
    /\ UNCHANGED <<grouped, renderVars, walkVars, composeVars, frontVars>>

GroupByTags ==
    /\ "groupByTags" \notin called
    /\ called' = called \cup {"groupByTags"}
    /\ grouped' \in groupByTags(api)
    /\ api' = apiAfterGroupByTags(api, grouped')
    /\ UNCHANGED <<endpoints, renderVars, walkVars, composeVars, frontVars>>

OrderNext == SortEndpoints \/ GroupByTags

SpecOrder == OrderInit /\ [][OrderNext]_vars

(***************************************************************************)
(* C4: groupByTags puts every endpoint into the group of each tag it       *)
(* lists, an endpoint without tags into the group "other"; no endpoint is  *)
(* dropped, and a group holds only endpoints that carry its tag (or, for   *)
(* "other", no tag).                                                       *)
(***************************************************************************)
\* how many elements of seq equal x
Occurrences(seq, x) == Cardinality({i \in 1..Len(seq) : seq[i] = x})

C4_GroupsFollowTags ==
    "groupByTags" \in called =>
        /\ \A i \in 1..Len(api.Endpoints) :
              LET ep == api.Endpoints[i]
              IN  /\ \A k \in 1..Len(ep.Tags) :
                        /\ ep.Tags[k] \in DOMAIN grouped
                        /\ Occurrences(grouped[ep.Tags[k]], ep) >= 1
                  /\ Len(ep.Tags) = 0 =>
                        "other" \in DOMAIN grouped /\ Occurrences(grouped["other"], ep) >= 1
        /\ \A t \in DOMAIN grouped :
              /\ Len(grouped[t]) > 0
              /\ \A i \in 1..Len(grouped[t]) :
                    LET ep == grouped[t][i]
                    IN  /\ Occurrences(api.Endpoints, ep) >= 1
                        /\ \/ \E k \in 1..Len(ep.Tags) : ep.Tags[k] = t
                           \/ (t = "other" /\ Len(ep.Tags) = 0)
                        \* as often in the group as the API lists it with that tag
                        /\ Occurrences(grouped[t], ep) =
                              Occurrences(api.Endpoints, ep)
                              * (IF Len(ep.Tags) = 0 THEN 1 ELSE Occurrences(ep.Tags, t))

\* an endpoint tagged users and orders sits in both groups, beside an
\* untagged endpoint in "other"
C4_Witness ==
    /\ "groupByTags" \in called
    /\ {"users", "orders", "other"} \subseteq DOMAIN grouped
    /\ \E i \in 1..Len(api.Endpoints) :
          /\ api.Endpoints[i].Tags = <<"users", "orders">>
          /\ Occurrences(grouped["users"], api.Endpoints[i]) = 1
          /\ Occurrences(grouped["orders"], api.Endpoints[i]) = 1
    /\ \E i \in 1..Len(grouped["other"]) : grouped["other"][i].Tags = <<>>

(***************************************************************************)
(* C6: after sorting, adjacent endpoints are ordered by path ascending     *)
(* and, at equal paths, by method precedence GET < POST < PUT < PATCH <    *)
(* DELETE < any other method; GET precedes DELETE at the same path.        *)
(***************************************************************************)
\* rank of a method in the precedence the claim states
Precedence(method) ==
    LET listed == <<"GET", "POST", "PUT", "PATCH", "DELETE">>
        at == {i \in 1..Len(listed) : listed[i] = method}
    IN  IF at = {} THEN Len(listed) + 1 ELSE Min(at)

InClaimedOrder(eps) ==
    /\ \A i \in 1..(Len(eps) - 1) :
          \/ StrLess(eps[i].Path, eps[i + 1].Path)
          \/ /\ eps[i].Path = eps[i + 1].Path
             /\ Precedence(eps[i].Method) <= Precedence(eps[i + 1].Method)
    /\ \A i, j \in 1..Len(eps) :
          (eps[i].Path = eps[j].Path /\ eps[i].Method = "GET" /\ eps[j].Method = "DELETE")
              => i < j

C6_SortedByPathThenMethod ==
    /\ "sortEndpoints" \in called => InClaimedOrder(endpoints)
    /\ "groupByTags" \in called => \A t \in DOMAIN grouped : InClaimedOrder(grouped[t])

\* the API lists DELETE /users before GET /users; both orderings were made
C6_Witness ==
    /\ called = {"sortEndpoints", "groupByTags"}
    /\ \E i, j \in 1..Len(api.Endpoints) :
          /\ i < j
          /\ api.Endpoints[i].Path = api.Endpoints[j].Path
          /\ api.Endpoints[i].Method = "DELETE" /\ api.Endpoints[j].Method = "GET"
    /\ \E i \in 1..Len(api.Endpoints) : api.Endpoints[i].Path # "/users"

(***************************************************************************)
(* Endpoint documents (internal/generator/generator.go).  The range loops  *)
(* of one call visit their maps in the orders `ords`: ords.props for the   *)
(* properties of a schema, ords.media for the media types listed in the    *)
(* document, ords.curl for the media types scanned by the command example. *)
(***************************************************************************)
\* parser.Parameter
Parameter(name, in, type, enum, example) ==
    [Name |-> name, In |-> in, Description |-> "", Required |-> (in = "path"),
     Type |-> type, Format |-> "", Enum |-> enum, Default |-> Nil, Example |-> example]

\* parser.MediaType
MediaType(s) == [Schema |-> s, Example |-> Nil]

\* parser.RequestBody
RequestBody(content) == [Description |-> "", Required |-> TRUE, Content |-> content]

\* parser.Response
Response(description, content) == [Description |-> description, Content |-> content]

\* parser.SecurityScheme
SecurityScheme(name, type, in, paramName, scheme) ==
    [Name |-> name, Type |-> type, Description |-> "", In |-> in,
     ParamName |-> paramName, Scheme |-> scheme]

\* config.Config (the fields the generator reads)
Config(output, baseURL, docsBaseURL, title) ==
    [Output |-> output, BaseURL |-> baseURL, DocsBaseURL |-> docsBaseURL, Title |-> title]

\* the base URL of the command example
CurlBaseURL(a, c) ==
    LET configured == IF c.BaseURL = "" THEN a.BaseURL ELSE c.BaseURL
        absolute == IF configured = "" \/ HasPrefix(configured, "/")
                    THEN "https://api.example.com" \o configured
                    ELSE configured
    IN  TrimSuffix(absolute, "/")

\* (mutant) a path parameter without example always becomes "example"
PathExample_noInteger(p) ==
    IF p.Example # Nil THEN FormatV(p.Example) ELSE "example"

\* the value put in place of a path parameter
PathExample(p) ==
    IF p.Example # Nil THEN FormatV(p.Example)
    ELSE IF p.Type = "integer" THEN "1"
    ELSE "example"

\* the path after the loop over the parameters: one ReplaceAll per path
\* parameter, each on the result of the one before
RECURSIVE CurlPath(_, _)
CurlPath(path, params) ==
    IF Len(params) = 0 THEN path
    ELSE LET p == params[1]
         IN  IF p.In = "path"
             THEN CurlPath(ReplaceAll(path, "{" \o p.Name \o "}", PathExample(p)),
                           Tail(params))
             ELSE CurlPath(path, Tail(params))

\* the value of a query parameter
QueryExample(p) ==
    IF p.Example # Nil THEN FormatV(p.Example)
    ELSE IF Len(p.Enum) > 0 THEN p.Enum[1]
    ELSE IF p.Type = "integer" \/ p.Type = "number" THEN "1"
    ELSE IF p.Type = "boolean" THEN "true"
    ELSE "value"

\* queryParams after the loop over the parameters
RECURSIVE QueryParams(_)
QueryParams(params) ==
    IF Len(params) = 0 THEN <<>>
    ELSE LET p == params[1]
         IN  IF p.In = "query"
             THEN <<p.Name \o "=" \o QueryExample(p)>> \o QueryParams(Tail(params))
             ELSE QueryParams(Tail(params))

\* the URL of the command example
CurlURL(a, c, e) ==
    LET queryParams == QueryParams(e.Parameters)
        url == CurlBaseURL(a, c) \o CurlPath(e.Path, e.Parameters)
    IN  IF Len(queryParams) > 0 THEN url \o "?" \o Join(queryParams, "&") ELSE url

\* (mutant) the scan goes on after a scheme has given its header
RECURSIVE AuthHeader_noBreak(_)
AuthHeader_noBreak(schemes) ==
    IF Len(schemes) = 0 THEN ""
    ELSE LET scheme == schemes[1]
         IN  IF scheme.Type = "apiKey" /\ scheme.In = "header"
             THEN " \\\n  -H \"" \o scheme.ParamName \o ": YOUR_API_KEY\""
                  \o AuthHeader_noBreak(Tail(schemes))
             ELSE IF scheme.Type = "http" /\ scheme.Scheme = "bearer"
             THEN " \\\n  -H \"Authorization: Bearer YOUR_TOKEN\""
                  \o AuthHeader_noBreak(Tail(schemes))
             ELSE AuthHeader_noBreak(Tail(schemes))

\* what the loop over g.api.SecuritySchemes writes: it breaks at the first
\* scheme that gives a header
RECURSIVE AuthHeader(_)
AuthHeader(schemes) ==
    IF Len(schemes) = 0 THEN ""
    ELSE LET scheme == schemes[1]
         IN  IF scheme.Type = "apiKey" /\ scheme.In = "header"
             THEN " \\\n  -H \"" \o scheme.ParamName \o ": YOUR_API_KEY\""
             ELSE IF scheme.Type = "http" /\ scheme.Scheme = "bearer"
             THEN " \\\n  -H \"Authorization: Bearer YOUR_TOKEN\""
             ELSE AuthHeader(Tail(schemes))

\* what the loop over ep.RequestBody.Content writes: it breaks after the
\* media type the range visits first
CurlBody(ords, e, bodyDepth) ==
    IF e.RequestBody # Nil /\ e.Method \in {"POST", "PUT", "PATCH"}
    THEN LET types == MapKeys(e.RequestBody.Content, ords.curl)
         IN  IF Len(types) = 0 THEN ""
             ELSE LET media == e.RequestBody.Content[types[1]]
                      body == renderJSONSchema(ords.props, media.Schema, 0, bodyDepth)
                  IN  IF media.Schema # Nil /\ body # "" THEN " \\\n  -d '" \o body \o "'"
                      ELSE ""
    ELSE ""

\* bodyDepth is the depth handed to renderJSONSchema: maxNestedDepth in
\* generator.go, 2 in the tag-grouping generator
generateCurlExample(a, c, ords, e, bodyDepth) ==
    "'''bash\n"
    \o "curl -X " \o e.Method \o " \"" \o CurlURL(a, c, e) \o "\""
    \o " \\\n  -H \"Content-Type: application/json\""
    \o AuthHeader(a.SecuritySchemes)
    \o CurlBody(ords, e, bodyDepth)
    \o "\n'''\n\n"

\* the rows of the parameters table
RECURSIVE ParameterRows(_)
ParameterRows(params) ==
    IF Len(params) = 0 THEN ""
    ELSE LET p == params[1]
             required == IF p.Required THEN "v" ELSE ""
             desc == IF Len(p.Enum) > 0
                     THEN p.Description \o " Enum: '" \o Join(p.Enum, "', '") \o "'"
                     ELSE p.Description
         IN  "| " \o p.Name \o " | " \o p.In \o " | " \o p.Type \o " | " \o required
             \o " | " \o desc \o " |\n" \o ParameterRows(Tail(params))

\* the text written so far followed by the text of the next call; Panic once
\* either has panicked
Then(written, next) ==
    IF written = Panic \/ next = Panic THEN Panic ELSE written \o next

\* what a loop `for contentType, media := range content` writes when the
\* range visits the media types in the order `types`
RECURSIVE ContentDocs(_, _, _)
ContentDocs(ords, content, types) ==
    IF Len(types) = 0 THEN ""
    ELSE Then(Then("Content-Type: '" \o types[1] \o "'\n\n",
                   IF content[types[1]].Schema # Nil
                   THEN generateSchemaDoc(ords.props, content[types[1]].Schema, 0)
                   ELSE ""),
              ContentDocs(ords, content, Tail(types)))

\* what the loop over the sorted response codes writes
RECURSIVE ResponseDocs(_, _, _)
ResponseDocs(ords, responses, codes) ==
    IF Len(codes) = 0 THEN ""
    ELSE Then(Then("**" \o codes[1] \o "** - " \o responses[codes[1]].Description \o "\n\n",
                   ContentDocs(ords, responses[codes[1]].Content,
                               MapKeys(responses[codes[1]].Content, ords.media))),
              ResponseDocs(ords, responses, Tail(codes)))

generateEndpoint(a, c, ords, e, bodyDepth) ==
    LET header == "## " \o e.Method \o " " \o e.Path
                  \o (IF e.Summary # "" THEN " - " \o e.Summary ELSE "")
                  \o (IF e.Deprecated THEN " (!) DEPRECATED" ELSE "")
        description == IF e.Description # "" THEN e.Description \o "\n\n" ELSE ""
        parameters ==
            IF Len(e.Parameters) > 0
            THEN "### Parameters\n\n"
                 \o "| Name | In | Type | Required | Description |\n"
                 \o "|------|-----|------|----------|-------------|\n"
                 \o ParameterRows(e.Parameters) \o "\n"
            ELSE ""
        requestBody ==
            IF e.RequestBody # Nil
            THEN Then("### Request Body\n\n"
                      \o (IF e.RequestBody.Description # ""
                          THEN e.RequestBody.Description \o "\n\n" ELSE ""),
                      ContentDocs(ords, e.RequestBody.Content,
                                  MapKeys(e.RequestBody.Content, ords.media)))
            ELSE ""
        responses ==
            IF MapLen(e.Responses) > 0
            THEN Then("### Responses\n\n",
                      ResponseDocs(ords, e.Responses,
                                   SortStrings(MapKeys(e.Responses, ords.codes))))
            ELSE ""
    IN  Then(Then(Then(header \o "\n\n" \o description \o parameters, requestBody),
                  responses),
             "### Example\n\n" \o generateCurlExample(a, c, ords, e, bodyDepth))

generateSingleEndpointFile(a, c, ords, e) ==
    Then(IF Len(e.Tags) > 0 THEN "# " \o e.Tags[1] \o "\n\n" ELSE "",
         generateEndpoint(a, c, ords, e, maxNestedDepth))

\* (mutant) no tag has a description
TagDescription_undeclared(tags, tag) == ""

\* the description of the first tag of g.api.Tags named `tag`, "" if none
RECURSIVE TagDescription(_, _)
TagDescription(tags, tag) ==
    IF Len(tags) = 0 THEN ""
    ELSE IF tags[1].Name = tag THEN tags[1].Description
    ELSE TagDescription(Tail(tags), tag)

\* "> " and the description of a tag that has one
TagQuote(tagDesc) == IF tagDesc # "" THEN "> " \o tagDesc \o "\n\n" ELSE ""

\* the endpoint documents of a group file, "\n---\n\n" between them
RECURSIVE EndpointDocs(_, _, _, _, _)
EndpointDocs(a, c, ords, eps, i) ==
    IF i > Len(eps) THEN ""
    ELSE Then(Then(IF i > 1 THEN "\n---\n\n" ELSE "",
                   generateEndpoint(a, c, ords, eps[i], 2)),
              EndpointDocs(a, c, ords, eps, i + 1))

\* the tag-grouping generator's document of one group
generateEndpointFile(a, c, ords, tag, eps) ==
    Then("# " \o tag \o "\n\n" \o TagQuote(TagDescription(a.Tags, tag)),
         EndpointDocs(a, c, ords, eps, 1))

formatSecurityScheme(scheme) ==
    "### " \o scheme.Name \o "\n\n"
    \o (IF scheme.Description # "" THEN scheme.Description \o "\n\n" ELSE "")
    \o (CASE scheme.Type = "apiKey" ->
                "- **Type**: API Key\n"
                \o "- **Parameter**: '" \o scheme.ParamName \o "'\n"
                \o "- **In**: " \o scheme.In \o "\n"
          [] scheme.Type = "http" ->
                "- **Type**: HTTP " \o scheme.Scheme \o "\n"
                \o (IF scheme.Scheme = "bearer"
                    THEN "- **Header**: 'Authorization: Bearer <token>'\n"
                    ELSE IF scheme.Scheme = "basic"
                    THEN "- **Header**: 'Authorization: Basic <credentials>'\n"
                    ELSE "")
          [] scheme.Type = "oauth2" -> "- **Type**: OAuth 2.0\n"
          [] scheme.Type = "openIdConnect" -> "- **Type**: OpenID Connect\n"
          [] OTHER -> "")
    \o "\n"

\* (mutant) the index head takes the title and the base URL of the API only
IndexHead_noOverride(a, c) ==
    LET schemes == [i \in 1..Len(a.SecuritySchemes) |->
                        formatSecurityScheme(a.SecuritySchemes[i])]
    IN  "# " \o a.Title \o "\n\n"
        \o (IF a.Description # "" THEN "> " \o a.Description \o "\n\n" ELSE "")
        \o (IF a.BaseURL # "" THEN "Base URL: '" \o a.BaseURL \o "'\n\n" ELSE "")
        \o (IF a.Version # "" THEN "Version: " \o a.Version \o "\n\n" ELSE "")
        \o (IF Len(a.SecuritySchemes) > 0
            THEN "## Authentication\n\n" \o Concat(schemes) \o "\n" ELSE "")
        \o "## Endpoints\n\n"

\* the part of llms.txt above the list of links
IndexHead(a, c) ==
    LET title == IF c.Title = "" THEN a.Title ELSE c.Title
        baseURL == IF c.BaseURL = "" THEN a.BaseURL ELSE c.BaseURL
        schemes == [i \in 1..Len(a.SecuritySchemes) |->
                        formatSecurityScheme(a.SecuritySchemes[i])]
    IN  "# " \o title \o "\n\n"
        \o (IF a.Description # "" THEN "> " \o a.Description \o "\n\n" ELSE "")
        \o (IF baseURL # "" THEN "Base URL: '" \o baseURL \o "'\n\n" ELSE "")
        \o (IF a.Version # "" THEN "Version: " \o a.Version \o "\n\n" ELSE "")
        \o (IF Len(a.SecuritySchemes) > 0
            THEN "## Authentication\n\n" \o Concat(schemes) \o "\n" ELSE "")
        \o "## Endpoints\n\n"

\* (mutant) the braces of path parameters stay in the file name
getEndpointFilename_keepBraces(e) ==
    ToLower(e.Method) \o "-" \o ReplaceAll(TrimPrefix(e.Path, "/"), "/", "-") \o ".txt"

getEndpointFilename(e) ==
    LET path == ReplaceAll(ReplaceAll(ReplaceAll(TrimPrefix(e.Path, "/"), "/", "-"),
                                      "{", ""), "}", "")
    IN  ToLower(e.Method) \o "-" \o path \o ".txt"

\* generateIndex of generator.go: one link per endpoint
generateIndex(a, c, eps) ==
    LET linksBase == IF c.DocsBaseURL # ""
                     THEN TrimSuffix(c.DocsBaseURL, "/") \o "/endpoints"
                     ELSE "./endpoints"
        link(i) ==
            LET e == eps[i]
                summary == IF e.Summary = "" THEN e.Path ELSE e.Summary
            IN  "- [" \o e.Method \o " " \o e.Path \o "](" \o linksBase \o "/"
                \o getEndpointFilename(e) \o ") -- " \o summary \o "\n"
    IN  IndexHead(a, c) \o Concat([i \in 1..Len(eps) |-> link(i)])

\* the file name (without ".txt") the tag-grouping generator gives a group
getEndpointBasedFilename(eps) ==
    IF Len(eps) = 0 THEN "other"
    ELSE LET parts == Split(TrimPrefix(eps[1].Path, "/"), "/")
             cleanParts == SelectSeq(parts, LAMBDA part : ~HasPrefix(part, "{"))
             maxParts == IF Len(cleanParts) < 2 THEN Len(cleanParts) ELSE 2
         IN  IF Len(parts) = 0 \/ Len(cleanParts) = 0 THEN "root"
             ELSE ToLower(Join(SubSeq(cleanParts, 1, maxParts), "-"))

\* generateIndex of the tag-grouping generator: one link per group
generateIndexGrouped(a, c, g, ord) ==
    LET tags == SortStrings(MapKeys(g, ord))
        link(i) ==
            LET tag == tags[i]
                filename == getEndpointBasedFilename(g[tag]) \o ".txt"
                tagDesc == TagDescription(a.Tags, tag)
            IN  IF tagDesc # ""
                THEN "- [" \o tag \o "](./endpoints/" \o filename \o ") -- " \o tagDesc
                     \o " (" \o ToString(Len(g[tag])) \o " endpoints)\n"
                ELSE "- [" \o tag \o "](./endpoints/" \o filename \o ") -- "
                     \o ToString(Len(g[tag])) \o " endpoints\n"
    IN  IndexHead(a, c) \o Concat([i \in 1..Len(tags) |-> link(i)])

(***************************************************************************)
(* The inputs of the document functions: an API, a configuration and one   *)
(* endpoint of the API, as the parser and the configuration loader hand    *)
(* them to the generator.                                                  *)
(***************************************************************************)
MaxParams == 2      \* most parameters of an endpoint
MaxSchemes == 3     \* most security schemes of an API

MediaTypes == {"application/json", "application/xml"}

ResponseCodes == {"200", "404"}

\* the orders the range loops of one call may take
DocOrders ==
    [props : {<<"a", "b", "ab", "B">>, <<"B", "ab", "b", "a">>},
     media : Perms(MediaTypes), curl : Perms(MediaTypes), codes : {<<"404", "200">>}]

\* the orders that make a difference to the command example
CurlOrders == { ords \in DocOrders : ords.media = <<"application/json", "application/xml">> }

\* parser.Endpoint with parameters, a request body and responses
EndpointOf(method, path, params, body, responses) ==
    [Endpoint(method, path, <<>>) EXCEPT
        !.Parameters = params, !.RequestBody = body, !.Responses = responses]

SomeParameters ==
    { Parameter("id", "path", "integer", <<>>, Nil),
      Parameter("id", "path", "integer", <<>>, ExNum(42)),
      Parameter("postId", "path", "number", <<>>, Nil),
      Parameter("limit", "query", "integer", <<>>, Nil),
      Parameter("score", "query", "number", <<>>, Nil),
      Parameter("active", "query", "boolean", <<>>, Nil),
      Parameter("name", "query", "string", <<>>, Nil),
      Parameter("sort", "query", "string", <<"asc", "desc">>, Nil),
      Parameter("sort", "query", "string", <<"asc">>, ExStr("desc")),
      Parameter("q", "query", "string", <<>>, ExStr("cats")),
      Parameter("X-Trace", "header", "string", <<>>, Nil) }

ParameterLists == UNION { [1..n -> SomeParameters] : n \in 0..MaxParams }

SomeSchemes ==
    { SecurityScheme("ApiKeyAuth", "apiKey", "header", "X-API-Key", ""),
      SecurityScheme("QueryKey", "apiKey", "query", "api_key", ""),
      SecurityScheme("BearerAuth", "http", "", "", "bearer"),
      SecurityScheme("BasicAuth", "http", "", "", "basic"),
      SecurityScheme("OAuth", "oauth2", "", "", "") }

SchemeLists == UNION { [1..n -> SomeSchemes] : n \in 0..MaxSchemes }

BodySchemas ==
    { Nil,
      Prim("string", ""),
      Obj([k \in {"a"} |-> Prim("string", "")]),
      Obj([k \in {"a", "b"} |-> IF k = "a" THEN Prim("string", "") ELSE Nil]) }

\* the Content maps of a request body or a response
Contents ==
    UNION { [types -> { MediaType(s) : s \in BodySchemas }] : types \in SUBSET MediaTypes }

SomeResponses ==
    { <<>>,
      [code \in {"200"} |-> Response("OK", <<>>)],
      [code \in {"200"} |->
          Response("OK", [t \in MediaTypes |->
              IF t = "application/json" THEN MediaType(Obj([k \in {"a"} |-> Prim("string", "")]))
              ELSE MediaType(Prim("string", ""))])],
      [code \in ResponseCodes |->
          IF code = "200"
          THEN Response("OK", [t \in {"application/json"} |-> MediaType(Prim("integer", ""))])
          ELSE Response("Not found", <<>>)] }

BaseURLs == {"", "https://api.test.com", "https://api.test.com/", "/v1"}

DefaultDocConfig == Config("./llms", "", "", "")

\* the parameters vary
ParameterScenarios ==
    { [api |-> API(<<>>, <<>>, <<>>), cfg |-> DefaultDocConfig,
       ep |-> EndpointOf("GET", "/users/{id}/posts/{postId}", params, Nil, <<>>)] :
        params \in ParameterLists }

\* the security schemes vary
SchemeScenarios ==
    { [api |-> API(<<>>, <<>>, schemes), cfg |-> DefaultDocConfig,
       ep |-> EndpointOf("GET", "/users/{id}",
                         <<Parameter("id", "path", "integer", <<>>, Nil)>>, Nil, <<>>)] :
        schemes \in SchemeLists }

\* the request body and the responses vary
BodyScenarios ==
    { [api |-> API(<<>>, <<>>, <<>>), cfg |-> DefaultDocConfig,
       ep |-> EndpointOf(method, "/users", <<>>, RequestBody(content), responses)] :
        method \in {"GET", "POST"}, content \in Contents, responses \in SomeResponses }

\* the base URLs of the configuration and of the API vary
BaseScenarios ==
    { [api |-> [API(<<>>, <<>>, <<>>) EXCEPT !.BaseURL = apiBase],
       cfg |-> Config("./llms", cfgBase, "", ""),
       ep |-> EndpointOf("GET", "/users", <<>>, Nil, <<>>)] :
        apiBase \in BaseURLs, cfgBase \in BaseURLs }

\* the sections vary: with and without description, parameters, request body
\* and responses
SectionScenarios ==
    { [api |-> API(<<>>, <<>>, <<>>), cfg |-> DefaultDocConfig,
       ep |-> [EndpointOf("POST", "/users/{id}", params, body, responses)
                 EXCEPT !.Description = description, !.Summary = summary]] :
        description \in {"", "Updates a user."},
        summary \in {"", "Update user"},
        params \in {<<>>, <<Parameter("id", "path", "integer", <<>>, Nil)>>},
        body \in {Nil, RequestBody([t \in {"application/json"} |->
                          MediaType(Obj([k \in {"a"} |-> Prim("string", "")]))])},
        responses \in SomeResponses }

DocScenarios ==
    ParameterScenarios \cup SchemeScenarios \cup BodyScenarios \cup BaseScenarios
    \cup SectionScenarios

(***************************************************************************)
(* Documents as a state machine: generateEndpoint and generateCurlExample  *)
(* are called on one endpoint, each up to MaxRuns times.                   *)
(***************************************************************************)
DocInit ==
    /\ \E sc \in DocScenarios : api = sc.api /\ cfg = sc.cfg /\ endpoint = sc.ep
    /\ called = {} /\ endpoints = <<>> /\ grouped = <<>>
    /\ epOut = <<>>
    /\ curlOut = <<>>
    /\ RenderIdle /\ WalkIdle /\ GenIdle /\ ParseIdle /\ RunIdle

\* the two functions are pure and share no state: a behaviour repeats one
\* of them on its input
CallGenerateEndpoint ==
    /\ Len(epOut) < MaxRuns
    /\ curlOut = <<>>
    /\ \E ords \in DocOrders :
          epOut' = Append(epOut, generateEndpoint(api, cfg, ords, endpoint, maxNestedDepth))
    /\ UNCHANGED <<cfg, endpoint, curlOut, genVars, renderVars, walkVars, orderVars, frontVars>>

CallGenerateCurlExample ==
    /\ Len(curlOut) < MaxRuns
    /\ epOut = <<>>
    /\ \E ords \in CurlOrders :
          curlOut' = Append(curlOut,
                            generateCurlExample(api, cfg, ords, endpoint, maxNestedDepth))
    /\ UNCHANGED <<cfg, endpoint, epOut, genVars, renderVars, walkVars, orderVars, frontVars>>

DocNext == CallGenerateEndpoint \/ CallGenerateCurlExample

SpecDoc == DocInit /\ [][DocNext]_vars

(***************************************************************************)
(* C7: the document of one endpoint is the same on every run: the schema   *)
(* docs of several media types come in one fixed content-type order and    *)
(* the payload of the command example is always taken from the same media  *)
(* type.  Stated over the texts successive calls on one endpoint return.   *)
(***************************************************************************)
C7_SameDocumentEveryRun ==
    /\ \A i, j \in DOMAIN epOut : epOut[i] = epOut[j]
    /\ \A i, j \in DOMAIN curlOut : curlOut[i] = curlOut[j]

(***************************************************************************)
(* Reading a command example back: its URL and its headers.                *)
(***************************************************************************)
\* the text between the first pair of double quotes of a line
Quoted(line) ==
    LET open == Index(line, "\"")
        rest == SubSeq(line, open + 1, Len(line))
    IN  SubSeq(rest, 1, Index(rest, "\"") - 1)

\* the URL of a command example: the first quoted text, on the line that
\* starts with curl
UrlOf(text) == Quoted(text)

\* the headers of a command example, in the order they are written
HeadersOf(text) ==
    LET headerLines == SelectSeq(Lines(text), LAMBDA line : HasPrefix(line, "  -H \""))
    IN  [i \in 1..Len(headerLines) |-> Quoted(headerLines[i])]

\* the headers of a command example other than Content-Type
AuthHeadersOf(text) ==
    SelectSeq(HeadersOf(text), LAMBDA h : h # "Content-Type: application/json")

(***************************************************************************)
(* C8: the URL of the command example is base URL + path + query.  Each    *)
(* {name} of a declared path parameter is replaced by the parameter's      *)
(* example if present, else 1 when its type is integer, else example; the  *)
(* query parameters follow in declared order as name=value, joined with &  *)
(* after a ?, the value being the example if present, else the first enum  *)
(* value, else 1 for integer/number, true for boolean, value otherwise.    *)
(* The expected URL is built placeholder by placeholder, reading the path  *)
(* from left to right.                                                     *)
(***************************************************************************)
\* the first declared parameter named `name` in place `in`, Nil if none
Declared(params, name, in) ==
    LET found == {i \in 1..Len(params) : params[i].Name = name /\ params[i].In = in}
    IN  IF found = {} THEN Nil ELSE params[Min(found)]

ClaimedPathValue(p) ==
    CASE p.Example # Nil -> FormatV(p.Example)
      [] p.Example = Nil /\ p.Type = "integer" -> "1"
      [] OTHER -> "example"

ClaimedQueryValue(p) ==
    CASE p.Example # Nil -> FormatV(p.Example)
      [] p.Example = Nil /\ p.Enum # <<>> -> Head(p.Enum)
      [] p.Example = Nil /\ p.Enum = <<>> /\ p.Type \in {"integer", "number"} -> "1"
      [] p.Example = Nil /\ p.Enum = <<>> /\ p.Type = "boolean" -> "true"
      [] OTHER -> "value"

RECURSIVE ClaimedPath(_, _)
ClaimedPath(path, params) ==
    LET open == Index(path, "{")
        close == Index(path, "}")
    IN  IF open = 0 \/ close < open THEN path
        ELSE LET name == SubSeq(path, open + 1, close - 1)
                 p == Declared(params, name, "path")
                 value == IF p = Nil THEN "{" \o name \o "}" ELSE ClaimedPathValue(p)
             IN  SubSeq(path, 1, open - 1) \o value
                 \o ClaimedPath(SubSeq(path, close + 1, Len(path)), params)

ClaimedQuery(params) ==
    LET query == SelectSeq(params, LAMBDA p : p.In = "query")
        pairs == [i \in 1..Len(query) |-> query[i].Name \o "=" \o ClaimedQueryValue(query[i])]
    IN  IF Len(query) = 0 THEN "" ELSE "?" \o Join(pairs, "&")

C8_UrlIsBasePathQuery ==
    LET claimed == CurlBaseURL(api, cfg)
                   \o ClaimedPath(endpoint.Path, endpoint.Parameters)
                   \o ClaimedQuery(endpoint.Parameters)
    IN  \A i \in DOMAIN curlOut : UrlOf(curlOut[i]) = claimed

\* GET /users/{id}/posts/{postId}?sort=asc: an integer path parameter without
\* example, an undeclared placeholder and a query parameter with an enum
C8_Witness ==
    /\ Len(curlOut) > 0
    /\ endpoint.Path = "/users/{id}/posts/{postId}"
    /\ endpoint.Parameters = <<Parameter("id", "path", "integer", <<>>, Nil),
                               Parameter("sort", "query", "string", <<"asc", "desc">>, Nil)>>
    /\ UrlOf(curlOut[1]) = "https://api.example.com/users/1/posts/{postId}?sort=asc"

(***************************************************************************)
(* C9 (as stated): the command example always has the header Content-Type: *)
(* application/json and exactly one authentication header, that of the     *)
(* first security scheme in list order that is apiKey-in-header            *)
(* (<ParamName>: YOUR_API_KEY) or http bearer (Authorization: Bearer       *)
(* YOUR_TOKEN).                                                            *)
(***************************************************************************)
Qualifies(scheme) ==
    \/ scheme.Type = "apiKey" /\ scheme.In = "header"
    \/ scheme.Type = "http" /\ scheme.Scheme = "bearer"

ClaimedAuthHeader(scheme) ==
    IF scheme.Type = "apiKey" THEN scheme.ParamName \o ": YOUR_API_KEY"
    ELSE "Authorization: Bearer YOUR_TOKEN"

\* the schemes of the API that give a header, in list order
Qualifying == SelectSeq(api.SecuritySchemes, Qualifies)

HasContentType(headers) ==
    \E k \in 1..Len(headers) : headers[k] = "Content-Type: application/json"

\* the headers other than Content-Type
AuthHeaders(headers) == SelectSeq(headers, LAMBDA h : h # "Content-Type: application/json")

C9_ExactlyOneAuthHeader ==
    \A i \in DOMAIN curlOut :
        LET headers == HeadersOf(curlOut[i])
        IN  /\ HasContentType(headers)
            /\ Len(AuthHeaders(headers)) = 1
            /\ Qualifying # <<>>
            /\ AuthHeaders(headers) = <<ClaimedAuthHeader(Head(Qualifying))>>

(***************************************************************************)
(* C9 (amended): the command example always has the header Content-Type:   *)
(* application/json and at most one authentication header: when some       *)
(* security scheme is apiKey-in-header or http bearer, exactly the header  *)
(* of the first such scheme in list order; when none is, no                *)
(* authentication header at all.                                           *)
(***************************************************************************)
C9_FirstQualifyingSchemeOnly ==
    \A i \in DOMAIN curlOut :
        LET headers == HeadersOf(curlOut[i])
        IN  /\ HasContentType(headers)
            /\ AuthHeaders(headers) =
                  IF Qualifying = <<>> THEN <<>> ELSE <<ClaimedAuthHeader(Head(Qualifying))>>

\* basic, then bearer, then apiKey-in-header: the bearer header alone
C9_Witness ==
    /\ Len(curlOut) > 0
    /\ Len(api.SecuritySchemes) = 3
    /\ api.SecuritySchemes[1].Scheme = "basic"
    /\ api.SecuritySchemes[2].Scheme = "bearer"
    /\ api.SecuritySchemes[3].Type = "apiKey" /\ api.SecuritySchemes[3].In = "header"
    /\ AuthHeadersOf(curlOut[1]) = <<"Authorization: Bearer YOUR_TOKEN">>

(***************************************************************************)
(* Generate of internal/generator/generator.go as a state machine: the     *)
(* directory is made, the endpoints are sorted, one file is written per    *)
(* endpoint, then llms.txt.  MkdirAll and WriteFile may fail; a failure    *)
(* ends the run with an error and leaves the files written so far.         *)
(***************************************************************************)
\* filepath.Join of a directory and a name; Join cleans the result, which
\* for the output directories of the model removes a leading "./"
FilepathJoin(dir, name) == TrimPrefix(dir, "./") \o "/" \o name

\* an endpoint with tags, and a request body if body is not Nil
TaggedEndpoint(method, path, tags, body) ==
    [Endpoint(method, path, tags) EXCEPT !.RequestBody = body]

\* a request body of two media types
TwoTypeBody ==
    RequestBody([t \in MediaTypes |->
        IF t = "application/json" THEN MediaType(Obj([k \in {"a"} |-> Prim("string", "")]))
        ELSE MediaType(Prim("string", ""))])

\* a request body whose schema has a property that is nil
NilPropertyBody ==
    RequestBody([t \in {"application/json"} |->
        MediaType(Obj([k \in {"a", "b"} |-> IF k = "a" THEN Prim("string", "") ELSE Nil]))])

GenEndpoints ==
    { TaggedEndpoint("POST", "/users", <<"users">>, TwoTypeBody),
      TaggedEndpoint("GET", "/users/{id}", <<"users">>, Nil),
      TaggedEndpoint("GET", "/users-id", <<>>, Nil),
      TaggedEndpoint("DELETE", "/API/v1/Orders/{orderId}", <<"orders">>, Nil) }

GenAPIs ==
    { API(eps, <<>>, <<>>) : eps \in UNION { [1..n -> GenEndpoints] : n \in 0..MaxEndpoints } }

GenConfigs ==
    { Config("./llms", "", docsBaseURL, "") :
        docsBaseURL \in {"", "https://docs.example.com/"} }

\* one endpoint, with the API's own title and base URL and the configured
\* overrides each empty or not
OverrideRuns ==
    { [api |-> [API(<<TaggedEndpoint("GET", "/users/{id}", <<"users">>, Nil)>>, <<>>, <<>>)
                    EXCEPT !.Title = apiTitle, !.BaseURL = apiBase],
       cfg |-> Config("./llms", cfgBase, "", cfgTitle)] :
        apiTitle \in {"", "Test API"}, apiBase \in {"", "https://api.test.com", "/v1"},
        cfgTitle \in {"", "Docs"}, cfgBase \in {"", "https://override.test"} }

GenRuns == { [api |-> a, cfg |-> c] : a \in GenAPIs, c \in GenConfigs } \cup OverrideRuns

GenerateInit ==
    /\ \E run \in GenRuns : api = run.api /\ cfg = run.cfg
    /\ called = {} /\ endpoints = <<>> /\ grouped = <<>>
    /\ endpoint = Nil /\ epOut = <<>> /\ curlOut = <<>>
    /\ genPc = "start"
    /\ files = <<>>
    /\ visited = {}
    /\ genErr = ""
    /\ RenderIdle /\ WalkIdle /\ ParseIdle /\ RunIdle

\* os.MkdirAll succeeds; the endpoints are sorted
MkdirAll ==
    /\ genPc = "start"
    /\ endpoints' \in sortEndpoints(api)
    /\ called' = called \cup {"sortEndpoints"}
    /\ api' = apiAfterSortEndpoints(api, endpoints')
    /\ genPc' = "write"
    /\ UNCHANGED <<grouped, docVars, files, visited, genErr, renderVars, walkVars, frontVars>>

\* os.MkdirAll fails
MkdirAllFails ==
    /\ genPc \in {"start", "start grouped"}
    /\ genPc' = "failed"
    /\ genErr' = "failed to create output directory"
    /\ UNCHANGED <<orderVars, docVars, files, visited, renderVars, walkVars, frontVars>>

\* the index of the endpoint the loop is at
NextEndpoint == Cardinality(visited) + 1

\* the orders of the range loops that make a difference to an endpoint file
GenOrders ==
    { ords \in DocOrders : ords.props = <<"a", "b", "ab", "B">> }

\* the end of one loop iteration, once the content has been composed: the
\* composing has panicked, or os.WriteFile writes the file, or it fails
WriteFile(path, content) ==
    \/ /\ content = Panic
       /\ genPc' = "panicked"
       /\ UNCHANGED <<files, genErr>>
    \/ /\ content # Panic
       /\ files' = MapPut(files, path, content)
       /\ UNCHANGED <<genPc, genErr>>
    \/ /\ content # Panic
       /\ genPc' = "failed"
       /\ genErr' = "failed to write " \o path
       /\ UNCHANGED files

\* one iteration of the loop over the endpoints
WriteEndpointFile ==
    /\ genPc = "write"
    /\ NextEndpoint <= Len(endpoints)
    /\ \E ords \in GenOrders :
          WriteFile(FilepathJoin(FilepathJoin(cfg.Output, "endpoints"),
                                 getEndpointFilename(endpoints[NextEndpoint])),
                    generateSingleEndpointFile(api, cfg, ords, endpoints[NextEndpoint]))
    /\ visited' = visited \cup {NextEndpoint}
    /\ UNCHANGED <<orderVars, docVars, renderVars, walkVars, frontVars>>

\* (mutant) llms.txt is written whether or not the loop has ended
WriteIndex_early ==
    /\ genPc = "write"
    /\ files' = MapPut(files, FilepathJoin(cfg.Output, "llms.txt"),
                       generateIndex(api, cfg, endpoints))
    /\ genPc' = "done"
    /\ UNCHANGED <<orderVars, docVars, visited, genErr, renderVars, walkVars, frontVars>>

\* after the loop: llms.txt is written and Generate returns nil
WriteIndex ==
    /\ genPc = "write"
    /\ NextEndpoint > Len(endpoints)
    /\ files' = MapPut(files, FilepathJoin(cfg.Output, "llms.txt"),
                       generateIndex(api, cfg, endpoints))
    /\ genPc' = "done"
    /\ UNCHANGED <<orderVars, docVars, visited, genErr, renderVars, walkVars, frontVars>>

\* after the loop: os.WriteFile of llms.txt fails
WriteIndexFails ==
    /\ \/ genPc = "write" /\ NextEndpoint > Len(endpoints)
       \/ genPc = "write grouped" /\ visited = DOMAIN grouped
    /\ genPc' = "failed"
    /\ genErr' = "failed to write llms.txt"
    /\ UNCHANGED <<orderVars, docVars, files, visited, renderVars, walkVars, frontVars>>

GenerateNext ==
    \/ MkdirAll \/ MkdirAllFails
    \/ WriteEndpointFile
    \/ WriteIndex \/ WriteIndexFails

SpecGenerate == GenerateInit /\ [][GenerateNext]_vars

(***************************************************************************)
(* Reading the output tree back.                                           *)
(***************************************************************************)
\* the lines of llms.txt that are links
IndexLinks ==
    SelectSeq(Lines(files[FilepathJoin(cfg.Output, "llms.txt")]),
              LAMBDA line : HasPrefix(line, "- ["))

\* the target of a link line: the text between "](" and the next ")"
LinkTarget(line) ==
    LET rest == SubSeq(line, Index(line, "](") + 2, Len(line))
    IN  SubSeq(rest, 1, Index(rest, ")") - 1)

\* the text after the last "/" of a target
RECURSIVE LastSegment(_)
LastSegment(target) ==
    IF Index(target, "/") = 0 THEN target
    ELSE LastSegment(SubSeq(target, Index(target, "/") + 1, Len(target)))

\* the names of the files under endpoints/
EndpointFileNames ==
    { LastSegment(f) : f \in { g \in DOMAIN files :
                                 HasPrefix(g, FilepathJoin(cfg.Output, "endpoints") \o "/") } }

\* the claimed file name of an endpoint, built character by character
ClaimedLower(c) ==
    LET i == Index("ABCDEFGHIJKLMNOPQRSTUVWXYZ", c)
    IN  IF i = 0 THEN c ELSE SubSeq("abcdefghijklmnopqrstuvwxyz", i, i)

RECURSIVE ClaimedMethod(_)
ClaimedMethod(method) ==
    IF method = "" THEN ""
    ELSE ClaimedLower(SubSeq(method, 1, 1)) \o ClaimedMethod(Tail(method))

RECURSIVE ClaimedPathPart(_)
ClaimedPathPart(path) ==
    IF path = "" THEN ""
    ELSE LET c == SubSeq(path, 1, 1)
         IN  (CASE c = "/" -> "-"
                [] c \in {"{", "}"} -> ""
                [] OTHER -> c) \o ClaimedPathPart(Tail(path))

ClaimedFilename(e) ==
    ClaimedMethod(e.Method) \o "-"
    \o ClaimedPathPart(IF SubSeq(e.Path, 1, 1) = "/" THEN Tail(e.Path) ELSE e.Path)
    \o ".txt"

\* Generate has returned nil, and the tree holds llms.txt and, for every
\* endpoint of the API, a file of the claimed name; the index lists every
\* endpoint as a link [METHOD path](base/<that file name>), and every link
\* of the index starts with base/ and ends in the name of a file written
TreeAndIndex(base) ==
    genPc = "done" =>
        LET links == IndexLinks
            targets == [k \in 1..Len(links) |-> LinkTarget(links[k])]
            names == EndpointFileNames
        IN  /\ genErr = ""
            /\ FilepathJoin(cfg.Output, "llms.txt") \in DOMAIN files
            /\ \A i \in 1..Len(api.Endpoints) :
                  LET e == api.Endpoints[i]
                      name == ClaimedFilename(e)
                  IN  /\ name \in names
                      /\ \E k \in 1..Len(links) :
                            HasPrefix(links[k],
                                      "- [" \o e.Method \o " " \o e.Path \o "](" \o base
                                      \o "/" \o name \o ")")
            /\ Len(links) = Len(api.Endpoints)
            /\ \A k \in 1..Len(links) :
                  /\ HasPrefix(targets[k], base \o "/")
                  /\ LastSegment(targets[k]) \in names

(***************************************************************************)
(* C10 (as stated): Generate writes llms.txt in the output root and, for   *)
(* every endpoint of the API, a file under endpoints/ named <lower-case    *)
(* method>-<path without its leading slash, every / replaced by -, braces  *)
(* removed>.txt; the index lists every endpoint as a link                  *)
(* [METHOD path](./endpoints/<that same filename>), so every link names a  *)
(* file that Generate wrote.                                               *)
(***************************************************************************)
C10_LinksAreRelative == TreeAndIndex("./endpoints")

(***************************************************************************)
(* C10 (amended): the same tree and the same file names; the links are     *)
(* [METHOD path](<base>/<that same filename>), where <base> is ./endpoints *)
(* when the configuration has no docsBaseUrl, and the docsBaseUrl without  *)
(* a trailing slash followed by /endpoints when it has one; the last       *)
(* segment of every link names a file that Generate wrote.                 *)
(***************************************************************************)
ClaimedLinksBase ==
    CASE cfg.DocsBaseURL = "" -> "./endpoints"
      [] cfg.DocsBaseURL # "" /\ HasSuffix(cfg.DocsBaseURL, "/") ->
            SubSeq(cfg.DocsBaseURL, 1, Len(cfg.DocsBaseURL) - 1) \o "/endpoints"
      [] OTHER -> cfg.DocsBaseURL \o "/endpoints"

C10_LinksFollowDocsBaseURL == TreeAndIndex(ClaimedLinksBase)

\* three endpoints with a docsBaseUrl: delete-API-v1-Orders-orderId.txt is
\* written and linked under https://docs.example.com/endpoints
C10_Witness ==
    /\ genPc = "done"
    /\ cfg.DocsBaseURL = "https://docs.example.com/"
    /\ Len(api.Endpoints) = 3
    /\ "llms/endpoints/delete-API-v1-Orders-orderId.txt" \in DOMAIN files
    /\ "llms/endpoints/get-users-id.txt" \in DOMAIN files
    /\ \E k \in 1..Len(IndexLinks) :
          LinkTarget(IndexLinks[k])
            = "https://docs.example.com/endpoints/delete-API-v1-Orders-orderId.txt"

(***************************************************************************)
(* Generate of the tag-grouping generator as a state machine: the          *)
(* directory is made, the endpoints are grouped by tag, one file is        *)
(* written per group in the order the range over the groups takes, then    *)
(* llms.txt.                                                               *)
(***************************************************************************)
GroupedEndpoints ==
    { TaggedEndpoint("GET", "/api/v1/users", <<"users">>, Nil),
      TaggedEndpoint("GET", "/api/v1/orders", <<"orders">>, Nil),
      TaggedEndpoint("PUT", "/users/{id}", <<"users", "orders">>, Nil),
      TaggedEndpoint("GET", "/health", <<>>, Nil),
      TaggedEndpoint("POST", "/broken", <<>>, NilPropertyBody) }

\* endpoints at the root path, at a path of one parameter and at a path of
\* more than two segments
RootPathEndpoints ==
    { TaggedEndpoint("GET", "/", <<"users">>, Nil),
      TaggedEndpoint("GET", "/{id}", <<"orders">>, Nil),
      TaggedEndpoint("POST", "/Users/{id}/Posts/Comments", <<"users">>, Nil) }

GroupedAPIs ==
    { API(eps, tags, <<>>) :
        eps \in UNION { [1..n -> GroupedEndpoints] : n \in 0..MaxEndpoints }
                    \cup UNION { [1..n -> RootPathEndpoints] : n \in 1..2 },
        tags \in SomeTags }

\* no endpoint of GroupedAPIs has two media types, so only the order of the
\* property names is left, which is sorted away
GroupOrders ==
    { ords \in GenOrders : /\ ords.media = <<"application/json", "application/xml">>
                           /\ ords.curl = <<"application/json", "application/xml">> }

GenerateGroupedInit ==
    /\ api \in GroupedAPIs
    /\ cfg = DefaultDocConfig
    /\ called = {} /\ endpoints = <<>> /\ grouped = <<>>
    /\ endpoint = Nil /\ epOut = <<>> /\ curlOut = <<>>
    /\ genPc = "start grouped"
    /\ files = <<>>
    /\ visited = {}
    /\ genErr = ""
    /\ RenderIdle /\ WalkIdle /\ ParseIdle /\ RunIdle

\* os.MkdirAll succeeds; the endpoints are grouped
MkdirAllGrouped ==
    /\ genPc = "start grouped"
    /\ grouped' \in groupByTags(api)
    /\ called' = called \cup {"groupByTags"}
    /\ api' = apiAfterGroupByTags(api, grouped')
    /\ genPc' = "write grouped"
    /\ UNCHANGED <<endpoints, docVars, files, visited, genErr, renderVars, walkVars, frontVars>>

\* one iteration of `for tag, endpoints := range grouped`
WriteGroupFile ==
    /\ genPc = "write grouped"
    /\ \E tag \in DOMAIN grouped \ visited :
          /\ \E ords \in GroupOrders :
                WriteFile(FilepathJoin(FilepathJoin(cfg.Output, "endpoints"),
                                       getEndpointBasedFilename(grouped[tag]) \o ".txt"),
                          generateEndpointFile(api, cfg, ords, tag, grouped[tag]))
          /\ visited' = visited \cup {tag}
    /\ UNCHANGED <<orderVars, docVars, renderVars, walkVars, frontVars>>

\* after the loop: llms.txt is written and Generate returns nil
WriteIndexGrouped ==
    /\ genPc = "write grouped"
    /\ visited = DOMAIN grouped
    /\ \E ord \in Perms(DOMAIN grouped) :
          files' = MapPut(files, FilepathJoin(cfg.Output, "llms.txt"),
                          generateIndexGrouped(api, cfg, grouped, ord))
    /\ genPc' = "done"
    /\ UNCHANGED <<orderVars, docVars, visited, genErr, renderVars, walkVars, frontVars>>

GenerateGroupedNext ==
    \/ MkdirAllGrouped \/ MkdirAllFails
    \/ WriteGroupFile
    \/ WriteIndexGrouped \/ WriteIndexFails

SpecGenerateGrouped == GenerateGroupedInit /\ [][GenerateGroupedNext]_vars

(***************************************************************************)
(* C5: Generate writes exactly one group file per distinct group: two      *)
(* endpoints both tagged users and one tagged orders produce exactly two   *)
(* files under endpoints/, whatever the endpoints' paths are, and each     *)
(* file holds the document of its own group.  Stated for a run that has    *)
(* returned nil: as many files under endpoints/ as groups, and for every   *)
(* group a file whose content is the document of that group.               *)
(***************************************************************************)
C5_OneFilePerGroup ==
    genPc = "done" =>
        /\ Cardinality(EndpointFileNames) = Cardinality(DOMAIN grouped)
        /\ \A tag \in DOMAIN grouped :
              \E name \in EndpointFileNames, ords \in GenOrders :
                  files[FilepathJoin(FilepathJoin(cfg.Output, "endpoints"), name)]
                    = generateEndpointFile(api, cfg, ords, tag, grouped[tag])

\* the status codes of a Responses section, in the order written: every
\* response starts a line with **<code>** - <description>
CodesOf(section) ==
    LET parts == Split(section, "\n**")
    IN  [i \in 1..(Len(parts) - 1) |->
            SubSeq(parts[i + 1], 1, Index(parts[i + 1], "** - ") - 1)]

\* the headings endpoint e calls for, in the claimed order
ClaimedSections(e) ==
    (IF Len(e.Parameters) > 0 THEN <<"Parameters">> ELSE <<>>)
        \o (IF e.RequestBody # Nil THEN <<"Request Body">> ELSE <<>>)
        \o (IF DOMAIN e.Responses # {} THEN <<"Responses">> ELSE <<>>)
        \o <<"Example">>

\* the sections of an endpoint document are those of endpoint e, in order:
\* the text is cut at every "### " that starts a line
SectionsInOrder(text, e) ==
    LET parts == Split(text, "\n### ")
        head == parts[1]
        claimed == ClaimedSections(e)
        responses == SelectSeq(Tail(parts), LAMBDA part : HasPrefix(part, "Responses\n"))
        codes == IF Len(responses) = 0 THEN <<>> ELSE CodesOf(Head(responses))
    IN  /\ HasPrefix(head, "## " \o e.Method \o " " \o e.Path)
        /\ (e.Description # "") => HasSuffix(head, "\n\n" \o e.Description \o "\n")
        /\ (e.Description = "") => Index(head, "\n") = Len(head)
        /\ Len(parts) - 1 = Len(claimed)
        /\ \A k \in 1..Len(claimed) : HasPrefix(parts[k + 1], claimed[k] \o "\n")
        /\ ListsExactly(codes, DOMAIN e.Responses)
        /\ StrictlyAscending(codes)

(***************************************************************************)
(* C11: generateEndpoint emits its sections in one fixed order: header     *)
(* line, description (if any), parameters table (if any parameter),        *)
(* Request Body (if declared), Responses with the status codes in          *)
(* ascending lexicographic order (if any response), Example; an endpoint   *)
(* with no parameters, no request body and no responses still gets the     *)
(* header line and the Example section.                                    *)
(***************************************************************************)
C11_SectionsInFixedOrder ==
    \A text \in { epOut[i] : i \in DOMAIN epOut } :
        text # Panic => SectionsInOrder(text, endpoint)

\* a document with every section and two status codes
C11_Witness ==
    /\ Len(epOut) > 0 /\ epOut[1] # Panic
    /\ endpoint.Description # "" /\ Len(endpoint.Parameters) > 0
    /\ endpoint.RequestBody # Nil /\ DOMAIN endpoint.Responses = {"200", "404"}
    /\ Index(epOut[1], "\n### Request Body\n") > 0
    /\ CodesOf(SubSeq(epOut[1], Index(epOut[1], "\n### Responses\n"), Len(epOut[1])))
            = <<"200", "404">>

(***************************************************************************)
(* C12: no renderer or composer operation fails: whatever the schema (nil, *)
(* a nil child in the property map, an empty or unknown type, an array     *)
(* without items), renderJSONSchema, generateFieldsTable and               *)
(* generateSchemaDoc each return text, never a run-time panic.             *)
(***************************************************************************)
C12_RenderersNeverPanic ==
    /\ \A i \in DOMAIN exOut : exOut[i] # Panic
    /\ \A i \in DOMAIN tblOut : tblOut[i] # Panic
    /\ \A i \in DOMAIN docOut : docOut[i] # Panic

(***************************************************************************)
(* C13: generateSchemaDoc returns, for an object schema with properties,   *)
(* a fenced json block holding the rendered example followed by the field  *)
(* table; for an array schema with items, the line Array of '<itemType>'   *)
(* (object when the items type is empty) followed by the doc of the items  *)
(* at depth + 1 when items is an object with properties; and the empty     *)
(* text for a nil schema, for a depth above 4 and for every other schema.  *)
(***************************************************************************)
FencedAndTable(ord, s) ==
    "'''json\n" \o renderJSONSchema(ord, s, 0, maxNestedDepth) \o "'''\n\n"
        \o generateFieldsTable(ord, s, "")

ClaimedSchemaDoc(ord, s, d) ==
    IF s = Nil \/ d > 4 THEN ""
    ELSE IF IsObjectWithProps(s) THEN FencedAndTable(ord, s)
    ELSE IF s.Type = "array" /\ s.Items # Nil
    THEN "Array of '" \o (IF s.Items.Type = "" THEN "object" ELSE s.Items.Type) \o "'\n\n"
            \o (IF IsObjectWithProps(s.Items) /\ d + 1 <= 4
                THEN FencedAndTable(ord, s.Items) ELSE "")
    ELSE ""

C13_SchemaDocShape ==
    \A i \in DOMAIN docOut :
        docOut[i] # Panic =>
            docOut[i] = ClaimedSchemaDoc(CHOOSE o \in RangeOrders : TRUE, schema, docDepth)

C13_Witness ==
    /\ Len(docOut) > 0
    /\ docDepth = 0
    /\ schema # Nil /\ schema.Type = "array" /\ IsObjectWithProps(schema.Items)
    /\ HasPrefix(docOut[1], "Array of 'object'\n\n'''json\n{\n")
    /\ Index(docOut[1], "}'''\n\n| Field | Type | Description |\n") > 0

(***************************************************************************)
(* C14: a non-empty configured title replaces the API's title in the       *)
(* index, and a non-empty configured base URL replaces the API's base URL  *)
(* both in the index and in the command example; when an override is empty *)
(* the API's own value is used, and the index has no base URL line when    *)
(* both are empty.                                                         *)
(***************************************************************************)
ClaimedTitle == IF cfg.Title # "" THEN cfg.Title ELSE api.Title

ClaimedBaseURL == IF cfg.BaseURL # "" THEN cfg.BaseURL ELSE api.BaseURL

\* the URL of the command example in an endpoint file
CurlUrlIn(text) ==
    LET at == Index(text, "\ncurl -X ")
    IN  Quoted(SubSeq(text, at, Len(text)))

\* a base URL that starts with / is shown after the default host
ShownBaseURL(base) ==
    IF HasPrefix(base, "/") THEN "https://api.example.com" \o base ELSE base

C14_OverridesTakePrecedence ==
    LET index == FilepathJoin(cfg.Output, "llms.txt")
        base == ClaimedBaseURL
    IN  /\ index \in DOMAIN files =>
              /\ HasPrefix(files[index], "# " \o ClaimedTitle \o "\n\n")
              /\ base # "" => Index(files[index], "\nBase URL: '" \o base \o "'\n\n") > 0
              /\ base = "" => Index(files[index], "Base URL:") = 0
        /\ \A path \in DOMAIN files \ {index} :
              base # "" => HasPrefix(CurlUrlIn(files[path]), ShownBaseURL(base) \o "/")

\* both overrides are set and the API has its own title and base URL: the
\* index and the endpoint file show the configured ones
C14_Witness ==
    /\ genPc = "done"
    /\ cfg.Title = "Docs" /\ api.Title = "Test API"
    /\ cfg.BaseURL = "https://override.test" /\ api.BaseURL = "https://api.test.com"
    /\ HasPrefix(files["llms/llms.txt"], "# Docs\n\nBase URL: 'https://override.test'\n\n")
    /\ DOMAIN files = {"llms/llms.txt", "llms/endpoints/get-users-id.txt"}
    /\ CurlUrlIn(files["llms/endpoints/get-users-id.txt"]) = "https://override.test/users/{id}"

(***************************************************************************)
(* C15: a schema node that carries an explicit example is rendered as that *)
(* formatted example (strings quoted, numbers and booleans in their        *)
(* natural text) instead of by its structure, whatever its type (objects   *)
(* with properties and arrays of objects included), at the root of the     *)
(* render and as a property value.                                         *)
(***************************************************************************)
ClaimedExampleText(example) ==
    CASE example.kind = "string" -> "\"" \o example.v \o "\""
      [] example.kind = "number" -> ToString(example.v)
      [] example.kind = "bool" -> IF example.v THEN "true" ELSE "false"

\* the text after the key of a root property, up to the end of its line
RootValueOf(text, name) ==
    LET key == "\n  \"" \o name \o "\": "
        rest == SubSeq(text, Index(text, key) + Len(key), Len(text))
    IN  TrimSuffix(SubSeq(rest, 1, Index(rest, "\n") - 1), ",")

C15_ExampleTakesPrecedence ==
    \A i \in DOMAIN exOut :
        /\ (schema # Nil /\ schema.Example # Nil) =>
              exOut[i] = ClaimedExampleText(schema.Example)
        /\ (IsObjectWithProps(schema) /\ schema.Example = Nil) =>
              \A name \in DOMAIN schema.Properties :
                  LET prop == schema.Properties[name]
                  IN  (prop # Nil /\ prop.Example # Nil) =>
                          RootValueOf(exOut[i], name) = ClaimedExampleText(prop.Example)

\* the text of an array whose items are an object with properties: a
\* single-element array holding the expanded object, at the given indent
ExpandedArray(s, indent) ==
    "[\n" \o Repeat("  ", indent) \o "  "
        \o renderJSONSchema(CHOOSE o \in RangeOrders : TRUE, s.Items, indent + 1,
                            maxNestedDepth)
        \o "\n" \o Repeat("  ", indent) \o "]"

\* an array as the claim describes it
ClaimedArray(s, indent) ==
    IF IsObjectWithProps(s.Items) THEN ExpandedArray(s, indent)
    ELSE IF s.Items # Nil THEN "[" \o getTypeExample(s.Items) \o "]"
    ELSE "[]"

\* an array that is a property value, as the code renders it
ClaimedPropertyArray(s, indent) ==
    IF IsObjectWithProps(s.Items) THEN ExpandedArray(s, indent)
    ELSE IF s.Items # Nil
    THEN IF getTypeExample(s.Items) = "null" THEN "[{}]"
         ELSE "[" \o getTypeExample(s.Items) \o "]"
    ELSE "[{}]"

IsPlainArray(s) == s # Nil /\ s.Type = "array" /\ s.Example = Nil

\* the root property name has the given text as its value
RootValueIs(text, name, value) ==
    \/ Index(text, "\n  \"" \o name \o "\": " \o value \o ",\n") > 0
    \/ Index(text, "\n  \"" \o name \o "\": " \o value \o "\n}") > 0

ClaimedPlainTypeExample(s) ==
    IF Len(s.Enum) > 0 THEN "\"" \o Head(s.Enum) \o "\""
    ELSE IF s.Type = "string"
    THEN CASE s.Format = "date-time" -> "\"2024-01-15T10:00:00Z\""
           [] s.Format = "date" -> "\"2024-01-15\""
           [] s.Format = "email" -> "\"user@example.com\""
           [] s.Format \in {"uri", "url"} -> "\"https://example.com\""
           [] OTHER -> "\"string\""
    ELSE IF s.Type = "integer" THEN "0"
    ELSE IF s.Type = "number" THEN "0.0"
    ELSE IF s.Type = "boolean" THEN "true"
    ELSE IF s.Type \in {"object", ""} THEN "{}"
    ELSE "null"

\* the table with the array case: [<example of the items>], or [] without items
RECURSIVE ClaimedTypeExampleWithArrays(_)
ClaimedTypeExampleWithArrays(s) ==
    IF s = Nil THEN "null"
    ELSE IF s.Example # Nil THEN ClaimedExampleText(s.Example)
    ELSE IF Len(s.Enum) = 0 /\ s.Type = "array"
    THEN IF s.Items = Nil THEN "[]"
         ELSE "[" \o ClaimedTypeExampleWithArrays(s.Items) \o "]"
    ELSE ClaimedPlainTypeExample(s)

\* getTypeExample is what renderJSONSchema returns for a root that is neither
\* an object nor an array
IsTypeExampleRoot(s) ==
    s # Nil /\ s.Example = Nil /\ s.Type \notin {"object", "array"}

\* and what it puts between the brackets for a root array whose items are not
\* an object with properties
IsTypeExampleItems(s) ==
    /\ s # Nil /\ s.Type = "array"
    /\ s.Items # Nil /\ s.Items.Example = Nil /\ ~IsObjectWithProps(s.Items)

(***************************************************************************)
(* C17 (as stated): for a schema without an explicit example,              *)
(* getTypeExample returns the first enum value in double quotes when the   *)
(* enum is non-empty; otherwise "string" or the canned value of the format *)
(* for a string, 0 for an integer, 0.0 for a number, true for a boolean,   *)
(* {} for an object or an empty type, and null for any other type.         *)
(***************************************************************************)
C17_OtherTypesGiveNull ==
    \A i \in DOMAIN exOut :
        /\ IsTypeExampleRoot(schema) => exOut[i] = ClaimedPlainTypeExample(schema)
        /\ IsTypeExampleItems(schema) =>
              exOut[i] = "[" \o ClaimedPlainTypeExample(schema.Items) \o "]"

(***************************************************************************)
(* C17 (amended): the same table, except that the type array gives         *)
(* [<getTypeExample of the items>] when the schema has items and []        *)
(* when it has none; null is returned for the types outside string,        *)
(* integer, number, boolean, array, object and the empty type.             *)
(***************************************************************************)
C17_ArraysGiveBrackets ==
    \A i \in DOMAIN exOut :
        /\ IsTypeExampleRoot(schema) => exOut[i] = ClaimedTypeExampleWithArrays(schema)
        /\ IsTypeExampleItems(schema) =>
              exOut[i] = "[" \o ClaimedTypeExampleWithArrays(schema.Items) \o "]"

\* an array of arrays of booleans has been rendered
C17_Witness ==
    /\ Len(exOut) > 0
    /\ IsTypeExampleItems(schema)
    /\ schema.Items.Type = "array" /\ schema.Items.Items = Prim("boolean", "")
    /\ exOut[1] = "[[true]]"

\* the segments of a path that count for the name of a group: the path
\* without its leading /, cut at every /, without the empty segments and the
\* segments that start with {
NamedSegments(path) ==
    SelectSeq(Split(TrimPrefix(path, "/"), "/"),
              LAMBDA part : part # "" /\ ~HasPrefix(part, "{"))

ClaimedGroupFilename(eps) ==
    IF Len(eps) = 0 THEN "other"
    ELSE LET segments == NamedSegments(eps[1].Path)
         IN  IF Len(segments) = 0 THEN "root"
             ELSE ToLower(Join(SubSeq(segments, 1, Min({2, Len(segments)})), "-"))

(***************************************************************************)
(* C18: getEndpointBasedFilename returns other for an empty group;         *)
(* otherwise it takes the first endpoint's path, drops the leading / and   *)
(* every segment that starts with {, joins the first two remaining         *)
(* segments with - in lower case, and returns root when no segment remains *)
(* (the paths / and /{id}), so the name is never the empty string.  Stated *)
(* for the group files Generate has written: each written group is in the  *)
(* file of that name, and no file is named .txt alone.                     *)
(***************************************************************************)
C18_GroupFilenameNeverEmpty ==
    LET dir == FilepathJoin(cfg.Output, "endpoints")
    IN  genPc \in {"write grouped", "done"} =>
            /\ \A tag \in visited :
                  FilepathJoin(dir, ClaimedGroupFilename(grouped[tag]) \o ".txt")
                      \in DOMAIN files
            /\ FilepathJoin(dir, ".txt") \notin DOMAIN files

\* the tag of a link line: the text between "- [" and "]("
LinkTag(line) == SubSeq(line, 4, Index(line, "](") - 1)

\* what a link line shows after its target
LinkNote(line) ==
    LET mark == ") -- "
    IN  SubSeq(line, Index(line, mark) + Len(mark), Len(line))

\* the description the API declares for a tag, "" when it declares none
DeclaredDescription(tag) ==
    LET declared == SelectSeq(api.Tags, LAMBDA t : t.Name = tag)
    IN  IF Len(declared) = 0 THEN "" ELSE Head(declared).Description

(***************************************************************************)
(* C19: the index of the tag-grouping generator lists the groups in        *)
(* ascending order of tag name, one entry per group, each showing the file *)
(* name derived for that group, the tag's description when the tag is      *)
(* declared with one, and a count equal to the number of endpoints in the  *)
(* group.                                                                  *)
(***************************************************************************)
C19_OneEntryPerGroupAscending ==
    genPc = "done" =>
        LET links == IndexLinks
            tags == [k \in 1..Len(links) |-> LinkTag(links[k])]
        IN  /\ ListsExactly(tags, DOMAIN grouped)
            /\ StrictlyAscending(tags)
            /\ \A k \in 1..Len(links) :
                  LET group == grouped[tags[k]]
                      count == ToString(Len(group)) \o " endpoints"
                      desc == DeclaredDescription(tags[k])
                  IN  /\ LinkTarget(links[k])
                            = "./endpoints/" \o getEndpointBasedFilename(group) \o ".txt"
                      /\ LinkNote(links[k])
                            = IF desc # "" THEN desc \o " (" \o count \o ")" ELSE count

\* two endpoints tagged users, declared with a description, and one tagged
\* orders, not declared
C19_Witness ==
    /\ genPc = "done"
    /\ Len(api.Tags) = 1
    /\ IndexLinks = << "- [orders](./endpoints/api-v1.txt) -- 1 endpoints",
                       "- [users](./endpoints/api-v1.txt) -- User operations (2 endpoints)" >>

\* the endpoints of a list at one path whose method is none of the five
\* ranked ones, in the order of the list
OtherMethodsAt(eps, path) ==
    SelectSeq(eps, LAMBDA e : /\ e.Path = path
                              /\ e.Method \notin {"GET", "POST", "PUT", "PATCH", "DELETE"})

\* the endpoints of the API that groupByTags puts into the group of a tag, in
\* the order of the API
MembersOf(tag) ==
    SelectSeq(api.Endpoints,
              LAMBDA e : IF Len(e.Tags) = 0 THEN tag = "other"
                         ELSE \E i \in 1..Len(e.Tags) : e.Tags[i] = tag)

(***************************************************************************)
(* C20: endpoints that share a path and whose methods are all outside      *)
(* GET/POST/PUT/PATCH/DELETE (HEAD and OPTIONS, say) keep their relative   *)
(* input order after sorting, in the sorted list of sortEndpoints and in   *)
(* every group of groupByTags.                                             *)
(***************************************************************************)
C20_StableAmongOtherMethods ==
    LET paths == { api.Endpoints[i].Path : i \in 1..Len(api.Endpoints) }
    IN  /\ "sortEndpoints" \in called =>
              \A path \in paths :
                  OtherMethodsAt(endpoints, path) = OtherMethodsAt(api.Endpoints, path)
        /\ "groupByTags" \in called =>
              \A tag \in DOMAIN grouped, path \in paths :
                  OtherMethodsAt(grouped[tag], path) = OtherMethodsAt(MembersOf(tag), path)

(***************************************************************************)
(* C21: in an object rendered by renderJSONSchema no property has an empty *)
(* value text: after the key and ": " comes a value, never the end of the  *)
(* line or the comma; a value that would be empty is written [{}] for an   *)
(* array, {} for an object and null otherwise.                             *)
(***************************************************************************)
C21_NoEmptyPropertyValue ==
    \A text \in { exOut[i] : i \in DOMAIN exOut } :
        /\ Index(text, "\": \n") = 0
        /\ Index(text, "\": ,\n") = 0

\* objects and arrays of objects in turn down to the object at indent 8: its
\* property, an array of objects, is past the ceiling and is written [{}]
C21_Witness ==
    /\ Len(exOut) > 0
    /\ schema \in CeilingSchemas
    /\ Index(exOut[1], "\n" \o Repeat("  ", 9) \o "\"a\": [{}]\n") > 0

(***************************************************************************)
(* Parser (internal/parser/openapi.go): conversion of a loaded document of *)
(* package openapi3 into the data model.  A *SchemaRef, a *ParameterRef    *)
(* and the like are records with the field Value; the slice of a schema's  *)
(* Type is a sequence, empty when the schema declares no type.             *)
(***************************************************************************)
\* a reference of package openapi3 to v
Ref(v) == [Value |-> v]

\* openapi3.Schema (the fields the parser reads)
DocSchema(types, enum, props, allOf, oneOf, anyOf, items) ==
    [Type |-> types, Format |-> "", Description |-> "", Example |-> Nil,
     Default |-> Nil, Enum |-> enum, Properties |-> props, AllOf |-> allOf, OneOf |-> oneOf,
     AnyOf |-> anyOf, Items |-> items]

\* openapi3.Schema of one type and nothing else
DocPrim(type) == DocSchema(<<type>>, <<>>, <<>>, <<>>, <<>>, <<>>, Nil)

\* openapi3.Schema of type object with the properties props
DocObj(props) == DocSchema(<<"object">>, <<>>, props, <<>>, <<>>, <<>>, Nil)

\* openapi3.Schema of type array with the items schema items
DocArr(items) == DocSchema(<<"array">>, <<>>, <<>>, <<>>, <<>>, <<>>, Ref(items))

\* openapi3.Schema that only composes the schemas of branches with allOf
DocAllOf(branches) ==
    DocSchema(<<>>, <<>>, <<>>, [i \in DOMAIN branches |-> Ref(branches[i])],
              <<>>, <<>>, Nil)

\* the elements of a slice of `any` that hold a string
StringsOf(values) ==
    LET strs == SelectSeq(values, LAMBDA e : e.kind = "string")
    IN  [i \in DOMAIN strs |-> strs[i].v]

\* the run-time panic of an index expression on an empty slice
IndexPanic == [panic |-> "runtime error: index out of range [0] with length 0"]

RECURSIVE convertSchema(_)
RECURSIVE mergeAllOf(_, _)
\* the allOf loop of convertSchema: the branches refs folded into the
\* converted schema conv
mergeAllOf(conv, refs) ==
    IF Len(refs) = 0 THEN conv
    ELSE LET merged == IF Head(refs).Value = Nil THEN Nil
                       ELSE convertSchema(Head(refs).Value)
         IN  IF merged = Nil THEN mergeAllOf(conv, Tail(refs))
             ELSE mergeAllOf(
                    [conv EXCEPT
                        !.Type = IF @ = "" /\ merged.Type # "" THEN merged.Type ELSE @,
                        !.Properties = merged.Properties @@ @,
                        !.Items = IF merged.Items # Nil /\ @ = Nil THEN merged.Items ELSE @],
                    Tail(refs))

\* the oneOf / anyOf step of convertSchema: the first branch taken as the
\* example when the converted schema conv has no property so far
takeFirst(conv, refs) ==
    IF Len(refs) > 0 /\ MapLen(conv.Properties) = 0 /\ refs[1].Value # Nil
    THEN LET first == convertSchema(refs[1].Value)
         IN  [conv EXCEPT !.Type = first.Type, !.Properties = first.Properties,
                            !.Items = first.Items]
    ELSE conv

convertSchema(s) ==
    IF s = Nil THEN Nil
    ELSE LET own == [Type |-> IF Len(s.Type) > 0 THEN s.Type[1] ELSE "",
                     Format |-> s.Format,
                     Description |-> s.Description,
                     Properties |->
                        [name \in {n \in DOMAIN s.Properties : s.Properties[n].Value # Nil}
                            |-> convertSchema(s.Properties[name].Value)],
                     Items |-> Nil,
                     Enum |-> StringsOf(s.Enum),
                     Example |-> s.Example]
             composed == takeFirst(takeFirst(mergeAllOf(own, s.AllOf), s.OneOf), s.AnyOf)
         IN  IF s.Items # Nil /\ s.Items.Value # Nil
             THEN [composed EXCEPT !.Items = convertSchema(s.Items.Value)]
             ELSE composed

\* a pointer to the string str (the Description of an openapi3.Response)
StringPtr(str) == [deref |-> str]

\* openapi3.Parameter
DocParameter(name, in, schemaRef) ==
    [Name |-> name, In |-> in, Description |-> "", Required |-> (in = "path"),
     Schema |-> schemaRef]

\* openapi3.MediaType
DocMediaType(schemaRef) == [Example |-> Nil, Schema |-> schemaRef]

\* openapi3.Operation
DocOperation(tags, params, requestBody, responses) ==
    [Summary |-> "", Description |-> "", Tags |-> tags, Deprecated |-> FALSE,
     Parameters |-> params, RequestBody |-> requestBody, Responses |-> responses]

\* openapi3.SecurityScheme
DocSecurityScheme(type, in, name, scheme) ==
    [Type |-> type, Description |-> "", In |-> in, Name |-> name, Scheme |-> scheme]

\* openapi3.T
DocT(title, servers, tags, paths, components) ==
    [Info |-> [Title |-> title, Description |-> "", Version |-> "1.0.0"],
     Servers |-> servers, Tags |-> tags, Paths |-> paths, Components |-> components]

convertParameter(p) ==
    LET param == [Name |-> p.Name, In |-> p.In, Description |-> p.Description,
                  Required |-> p.Required, Type |-> "", Format |-> "",
                  Enum |-> <<>>, Default |-> Nil, Example |-> Nil]
    IN  IF p.Schema # Nil /\ p.Schema.Value # Nil
        THEN IF Len(p.Schema.Value.Type) = 0 THEN IndexPanic
             ELSE [param EXCEPT !.Type = p.Schema.Value.Type[1],
                                !.Format = p.Schema.Value.Format,
                                !.Default = p.Schema.Value.Default,
                                !.Example = p.Schema.Value.Example,
                                !.Enum = StringsOf(p.Schema.Value.Enum)]
        ELSE param

\* the content loop of convertRequestBody and of convertResponse
convertContent(content) ==
    [contentType \in DOMAIN content |->
        [Schema |-> IF content[contentType].Schema # Nil
                       /\ content[contentType].Schema.Value # Nil
                    THEN convertSchema(content[contentType].Schema.Value)
                    ELSE Nil,
         Example |-> content[contentType].Example]]

convertRequestBody(rb) ==
    [Description |-> rb.Description, Required |-> rb.Required,
     Content |-> convertContent(rb.Content)]

convertResponse(r) ==
    [Description |-> IF r.Description # Nil THEN r.Description.deref ELSE "",
     Content |-> convertContent(r.Content)]

convertOperation(path, method, op) ==
    LET refs == SelectSeq(op.Parameters, LAMBDA paramRef : paramRef.Value # Nil)
        params == [i \in DOMAIN refs |-> convertParameter(refs[i].Value)]
    IN  IF \E i \in DOMAIN params : params[i] = IndexPanic THEN IndexPanic
        ELSE [Method |-> method, Path |-> path, Summary |-> op.Summary,
              Description |-> op.Description, Tags |-> op.Tags,
              Parameters |-> params,
              RequestBody |-> IF op.RequestBody # Nil /\ op.RequestBody.Value # Nil
                              THEN convertRequestBody(op.RequestBody.Value)
                              ELSE Nil,
              Responses |-> IF op.Responses # Nil
                            THEN [code \in {c \in DOMAIN op.Responses :
                                                op.Responses[c].Value # Nil}
                                    |-> convertResponse(op.Responses[code].Value)]
                            ELSE <<>>,
              Deprecated |-> op.Deprecated]

\* the elements of the sequences of seqs, in turn
RECURSIVE Flatten(_)
Flatten(seqs) == IF Len(seqs) = 0 THEN <<>> ELSE Head(seqs) \o Flatten(Tail(seqs))

\* convertToAPI; its range loops visit the paths in the order ords.paths, the
\* operations of a path in the order ords.methods and the security schemes
\* in the order ords.schemes
convertToAPI(d, ords) ==
    LET paths == MapKeys(d.Paths, ords.paths)
        operations ==
            Flatten([i \in DOMAIN paths |->
                LET methods == SelectSeq(MapKeys(d.Paths[paths[i]], ords.methods),
                                         LAMBDA m : d.Paths[paths[i]][m] # Nil)
                IN  [j \in DOMAIN methods |->
                        convertOperation(paths[i], methods[j],
                                         d.Paths[paths[i]][methods[j]])]])
        names == IF d.Components # Nil
                 THEN SelectSeq(MapKeys(d.Components.SecuritySchemes, ords.schemes),
                                LAMBDA n : d.Components.SecuritySchemes[n].Value # Nil)
                 ELSE <<>>
    IN  IF \E i \in DOMAIN operations : operations[i] = IndexPanic THEN IndexPanic
        ELSE [Title |-> d.Info.Title, Description |-> d.Info.Description,
              Version |-> d.Info.Version,
              BaseURL |-> IF Len(d.Servers) > 0 THEN d.Servers[1].URL ELSE "",
              Tags |-> [i \in DOMAIN d.Tags |->
                            [Name |-> d.Tags[i].Name,
                             Description |-> d.Tags[i].Description]],
              Endpoints |-> operations,
              SecuritySchemes |->
                  [i \in DOMAIN names |->
                      [Name |-> names[i],
                       Type |-> d.Components.SecuritySchemes[names[i]].Value.Type,
                       Description |->
                           d.Components.SecuritySchemes[names[i]].Value.Description,
                       In |-> d.Components.SecuritySchemes[names[i]].Value.In,
                       ParamName |-> d.Components.SecuritySchemes[names[i]].Value.Name,
                       Scheme |-> d.Components.SecuritySchemes[names[i]].Value.Scheme]]]

(***************************************************************************)
(* Parser inputs: schemas, parameters and documents as the loader of       *)
(* package openapi3 hands them over, every reference resolved.             *)
(***************************************************************************)
\* object schemas whose properties collide on the name "a"
NamedString == DocObj([n \in {"a", "b"} |-> Ref(DocPrim("string"))])

NamedInteger == DocObj([n \in {"a"} |-> Ref(DocPrim("integer"))])

\* a schema without type, with one property
Untyped ==
    DocSchema(<<>>, <<>>, [n \in {"ab"} |-> Ref(DocPrim("boolean"))], <<>>, <<>>, <<>>, Nil)

\* a schema without type, with an enum only
EnumOnly ==
    DocSchema(<<>>, <<[kind |-> "string", v |-> "asc"], [kind |-> "number", v |-> 1],
                       [kind |-> "string", v |-> "desc"]>>,
              <<>>, <<>>, <<>>, <<>>, Nil)

AllOfSchemas ==
    { DocAllOf(<<NamedString, NamedInteger>>),
      DocAllOf(<<NamedInteger, NamedString>>),
      DocAllOf(<<Untyped, NamedInteger>>),
      DocAllOf(<<Untyped, DocPrim("string"), NamedString>>),
      DocAllOf(<<DocPrim("array"), DocArr(DocPrim("string")), DocArr(DocPrim("integer"))>>),
      DocAllOf(<<DocAllOf(<<Untyped, NamedInteger>>), NamedString>>),
      DocSchema(<<>>, <<>>, <<>>, <<Ref(Nil), Ref(NamedInteger)>>, <<>>, <<>>, Nil),
      DocSchema(<<"object">>, <<>>, [n \in {"a"} |-> Ref(DocPrim("boolean"))],
                <<Ref(NamedString)>>, <<>>, <<>>, Nil),
      DocSchema(<<"array">>, <<>>, <<>>, <<Ref(DocArr(DocPrim("string")))>>, <<>>, <<>>,
                Ref(DocPrim("number"))) }

ParseSchemas ==
    { Nil, DocPrim("string"), NamedString, DocArr(NamedInteger), Untyped, EnumOnly,
      DocObj([n \in {"a", "b"} |-> IF n = "a" THEN Ref(Nil) ELSE Ref(EnumOnly)]),
      DocSchema(<<>>, <<>>, <<>>, <<>>, <<Ref(NamedString), Ref(NamedInteger)>>, <<>>, Nil),
      DocSchema(<<>>, <<>>, <<>>, <<>>, <<>>, <<Ref(DocArr(Untyped))>>, Nil),
      DocSchema(<<"object">>, <<>>, <<>>, <<Ref(Untyped)>>, <<Ref(NamedString)>>, <<>>, Nil),
      DocSchema(<<"string">>, <<>>, <<>>, <<>>, <<Ref(Nil)>>, <<Ref(NamedInteger)>>, Nil) }
        \cup AllOfSchemas

ParseParameters ==
    { DocParameter("limit", "query", Ref(DocPrim("integer"))),
      DocParameter("id", "path", Ref(DocSchema(<<"string", "null">>, <<>>, <<>>, <<>>,
                                               <<>>, <<>>, Nil))),
      DocParameter("sort", "query", Ref(EnumOnly)),
      DocParameter("filter", "query",
                   Ref(DocSchema(<<>>, <<>>, <<>>, <<>>,
                                 <<Ref(DocPrim("string")), Ref(DocPrim("integer"))>>,
                                 <<>>, Nil))),
      DocParameter("order", "query",
                   Ref(DocSchema(<<"string">>, <<[kind |-> "string", v |-> "asc"]>>,
                                 <<>>, <<>>, <<>>, <<>>, Nil))),
      DocParameter("X-Trace", "header", Nil),
      DocParameter("page", "query", Ref(Nil)) }

\* the names under which a document declares its security schemes
SchemeNames == {"ApiKeyAuth", "BearerAuth", "Unresolved"}

BearerScheme == DocSecurityScheme("http", "", "", "bearer")

ApiKeyScheme == DocSecurityScheme("apiKey", "header", "X-API-Key", "")

DocPaths == {"/users", "/users/{id}"}

DocMethods == {"GET", "POST"}

\* the operations of the documents
ListUsers ==
    DocOperation(<<"users">>, <<Ref(DocParameter("limit", "query", Ref(DocPrim("integer"))))>>,
                 Nil,
                 [code \in {"200"} |->
                    Ref([Description |-> StringPtr("OK"),
                         Content |-> [t \in {"application/json"} |->
                                         DocMediaType(Ref(DocArr(NamedString)))]])])

CreateUser ==
    DocOperation(<<"users">>, <<>>,
                 Ref([Description |-> "", Required |-> TRUE,
                      Content |-> [t \in {"application/json"} |->
                                      DocMediaType(Ref(DocAllOf(<<NamedString,
                                                                  NamedInteger>>)))]]),
                 [code \in {"201", "default"} |->
                    IF code = "201" THEN Ref([Description |-> Nil, Content |-> <<>>])
                    ELSE Ref(Nil)])

GetUser(paramSchema) ==
    DocOperation(<<>>, <<Ref(DocParameter("id", "path", Ref(DocPrim("string")))),
                         Ref(Nil),
                         Ref(DocParameter("sort", "query", Ref(paramSchema)))>>,
                 Ref(Nil), Nil)

\* the paths of a document whose sort parameter has the schema paramSchema
PathsWith(paramSchema) ==
    [path \in DocPaths |->
        IF path = "/users"
        THEN [method \in DocMethods |-> IF method = "GET" THEN ListUsers ELSE CreateUser]
        ELSE [method \in {"GET"} |-> GetUser(paramSchema)]]

ParseDocs ==
    { DocT("Users", <<[URL |-> "https://api.test/v1"], [URL |-> "https://staging.test"]>>,
           <<[Name |-> "users", Description |-> "User operations"]>>,
           PathsWith(DocPrim("string")),
           [SecuritySchemes |->
               [n \in {"BearerAuth", "ApiKeyAuth"} |->
                   Ref(IF n = "BearerAuth" THEN BearerScheme ELSE ApiKeyScheme)]]),
      DocT("Users", <<>>, <<>>, PathsWith(DocPrim("string")),
           [SecuritySchemes |->
               [n \in SchemeNames |->
                   IF n = "BearerAuth" THEN Ref(BearerScheme)
                   ELSE IF n = "ApiKeyAuth" THEN Ref(ApiKeyScheme)
                   ELSE Ref(Nil)]]),
      DocT("Users", <<>>, <<>>, PathsWith(DocPrim("string")),
           [SecuritySchemes |-> [n \in {"ApiKeyAuth"} |-> Ref(ApiKeyScheme)]]),
      DocT("Users", <<>>, <<>>, PathsWith(DocPrim("string")), Nil),
      DocT("Users", <<>>, <<>>, PathsWith(EnumOnly), Nil) }

ParseCalls ==
    { [fn |-> "convertSchema", arg |-> s] : s \in ParseSchemas }
        \cup { [fn |-> "convertParameter", arg |-> p] : p \in ParseParameters }
        \cup { [fn |-> "convertToAPI", arg |-> d] : d \in ParseDocs }

\* the orders in which the range loops of one conversion may visit the maps
ConvertOrders ==
    [paths : Perms(DocPaths), methods : Perms(DocMethods), schemes : Perms(SchemeNames)]

(***************************************************************************)
(* Parser as a state machine: one value, converted repeatedly.             *)
(***************************************************************************)
ParseInit ==
    /\ doc \in ParseCalls
    /\ parsed = <<>>
    /\ RenderIdle /\ WalkIdle /\ OrderIdle /\ DocIdle /\ GenIdle /\ RunIdle

CallConvertSchema ==
    /\ doc.fn = "convertSchema"
    /\ Len(parsed) < MaxRuns
    /\ parsed' = Append(parsed, convertSchema(doc.arg))
    /\ UNCHANGED <<doc, runVars, renderVars, walkVars, orderVars, composeVars>>

CallConvertParameter ==
    /\ doc.fn = "convertParameter"
    /\ Len(parsed) < MaxRuns
    /\ parsed' = Append(parsed, convertParameter(doc.arg))
    /\ UNCHANGED <<doc, runVars, renderVars, walkVars, orderVars, composeVars>>

CallConvertToAPI ==
    /\ doc.fn = "convertToAPI"
    /\ Len(parsed) < MaxRuns
    /\ \E ords \in ConvertOrders : parsed' = Append(parsed, convertToAPI(doc.arg, ords))
    /\ UNCHANGED <<doc, runVars, renderVars, walkVars, orderVars, composeVars>>

ParseNext == CallConvertSchema \/ CallConvertParameter \/ CallConvertToAPI

SpecParse == ParseInit /\ [][ParseNext]_vars

(***************************************************************************)
(* Reading an allOf merge: the conversions of the resolved branches, the   *)
(* conversion of the schema without its allOf, and the merge in which the  *)
(* earlier definition of a property is kept.                               *)
(***************************************************************************)
BranchesOf(s) ==
    LET refs == SelectSeq(s.AllOf, LAMBDA ref : ref.Value # Nil)
    IN  [i \in DOMAIN refs |-> convertSchema(refs[i].Value)]

OwnPart(s) == convertSchema([s EXCEPT !.AllOf = <<>>])

\* the first element of elems that satisfies Test(_), otherwise
FirstOr(elems, Test(_), otherwise) ==
    LET hits == SelectSeq(elems, Test) IN IF Len(hits) > 0 THEN hits[1] ELSE otherwise

RECURSIVE EarlierKept(_, _)
EarlierKept(props, branches) ==
    IF Len(branches) = 0 THEN props
    ELSE EarlierKept(props @@ Head(branches).Properties, Tail(branches))

\* the schemas of the allOf rule: composed with allOf only
IsAllOfCall ==
    /\ doc # Nil
    /\ doc.fn = "convertSchema"
    /\ doc.arg # Nil
    /\ Len(doc.arg.AllOf) > 0
    /\ Len(doc.arg.OneOf) = 0
    /\ Len(doc.arg.AnyOf) = 0

FlagDefaults ==
    [config |-> "", output |-> "./llms", title |-> "", baseURL |-> "",
     language |-> "en", skipValidation |-> FALSE]

\* the variable of the flag name once cobra has parsed the command line c
FlagVar(c, name) == IF name \in DOMAIN c.flags THEN c.flags[name] ELSE FlagDefaults[name]

\* config.DefaultConfig
DefaultConfig ==
    [Source |-> "", Output |-> "./llms", BaseURL |-> "", DocsBaseURL |-> "",
     Title |-> "", Language |-> "en", GroupBy |-> "tag", SkipValidation |-> FALSE]

\* the error value with the message msg
Err(msg) == [err |-> msg]

\* config.LoadFromFile: the defaults, overwritten by the fields of the file
LoadFromFile(file) ==
    IF file = Nil THEN Err("read or unmarshal error")
    ELSE [field \in DOMAIN DefaultConfig |->
            IF field \in DOMAIN file THEN file[field] ELSE DefaultConfig[field]]

loadConfig(c) ==
    LET loaded == IF FlagVar(c, "config") # "" THEN LoadFromFile(c.file) ELSE DefaultConfig
    IN  IF "err" \in DOMAIN loaded THEN Err("failed to load config")
        ELSE [loaded EXCEPT
                !.Source = IF Len(c.args) > 0 THEN c.args[1] ELSE @,
                !.Output = IF FlagVar(c, "output") # "" /\ FlagVar(c, "output") # "./llms"
                           THEN FlagVar(c, "output") ELSE @,
                !.Title = IF FlagVar(c, "title") # "" THEN FlagVar(c, "title") ELSE @,
                !.BaseURL = IF FlagVar(c, "baseURL") # "" THEN FlagVar(c, "baseURL") ELSE @,
                !.Language = IF FlagVar(c, "language") # "" THEN FlagVar(c, "language") ELSE @,
                !.SkipValidation = IF FlagVar(c, "skipValidation") THEN TRUE ELSE @]

\* (*Config).Validate: the error, Nil for nil
Validate(c) == IF c.Source = "" THEN Err("source is required") ELSE Nil

(***************************************************************************)
(* Inputs of the command.                                                  *)
(***************************************************************************)
\* f on the keys of S only
Restrict(f, S) == [x \in S |-> f[x]]

\* the fields a config file may set: none, or all that loadConfig handles
CliFiles ==
    { <<>>,
      [Source |-> "api.yaml", Output |-> "./docs", BaseURL |-> "https://file.test",
       Title |-> "From file", Language |-> "ru", SkipValidation |-> TRUE] }

\* every choice of flags given on the command line, with their values
CliFlags ==
    { Restrict(values, given) :
        values \in [config : {"spec2llms.json"}, output : {"./llms", "./out"},
                    title : {"Docs"}, baseURL : {"https://override.test"},
                    language : {"en", "ru"}, skipValidation : BOOLEAN],
        given \in SUBSET DOMAIN FlagDefaults }

CliArgs == { <<>>, <<"openapi.yaml">> }

\* the command lines; the config file counts only when --config is given
CommandLines ==
    { [args |-> a, flags |-> f, file |-> file] :
        a \in CliArgs, f \in CliFlags, file \in CliFiles \cup {Nil} }

(***************************************************************************)
(* loadConfig and Validate as a state machine: the first two steps of run. *)
(***************************************************************************)
LoadInit ==
    /\ cli \in CommandLines
    /\ runPc = "loadConfig"
    /\ doc = Nil /\ parsed = <<>>
    /\ RenderIdle /\ WalkIdle /\ OrderIdle /\ DocIdle /\ GenIdle

\* cfg, err := loadConfig(args)
LoadConfig ==
    /\ runPc = "loadConfig"
    /\ LET loaded == loadConfig(cli)
       IN  IF "err" \in DOMAIN loaded
           THEN runPc' = loaded.err /\ cfg' = cfg
           ELSE runPc' = "Validate" /\ cfg' = loaded
    /\ UNCHANGED <<cli, parseVars, endpoint, epOut, curlOut, genVars,
                   renderVars, walkVars, orderVars>>

\* cfg.Validate()
ValidateConfig ==
    /\ runPc = "Validate"
    /\ runPc' = IF Validate(cfg) # Nil THEN Validate(cfg).err ELSE "Parse"
    /\ UNCHANGED <<cli, parseVars, composeVars, renderVars, walkVars, orderVars>>

LoadNext == LoadConfig \/ ValidateConfig

SpecLoadConfig == LoadInit /\ [][LoadNext]_vars

(***************************************************************************)
(* run as a state machine: loadConfig, Validate, Parse, Generate.  doc is  *)
(* what the loader makes of the source: doc.arg is the document, Nil when  *)
(* loading fails, and doc.valid tells whether doc.Validate accepts it.     *)
(***************************************************************************)
RunCommandLines ==
    { [args |-> <<"openapi.yaml">>, flags |-> <<>>, file |-> Nil],
      [args |-> <<>>, flags |-> <<>>, file |-> Nil],
      [args |-> <<>>, flags |-> [config |-> "spec2llms.json"], file |-> Nil],
      [args |-> <<>>, flags |-> [config |-> "spec2llms.json"],
       file |-> [Source |-> "api.yaml", SkipValidation |-> TRUE]],
      [args |-> <<"openapi.yaml">>, flags |-> [output |-> "./out", skipValidation |-> TRUE],
       file |-> Nil] }

RunDocs ==
    { [fn |-> "Parse", arg |-> Nil, valid |-> FALSE] }
        \cup { [fn |-> "Parse", arg |-> d, valid |-> v] : d \in ParseDocs, v \in BOOLEAN }

RunInit ==
    /\ cli \in RunCommandLines
    /\ doc \in RunDocs
    /\ runPc = "loadConfig"
    /\ parsed = <<>>
    /\ RenderIdle /\ WalkIdle /\ OrderIdle /\ DocIdle /\ GenIdle

\* parser.Parse(cfg.Source, opts): the loader fails, or doc.Validate rejects
\* the document, or the document is converted
ParseSource ==
    /\ runPc = "Parse"
    /\ IF doc.arg = Nil
       THEN runPc' = "failed to parse spec: failed to load OpenAPI spec" /\ api' = api
       ELSE IF ~cfg.SkipValidation /\ ~doc.valid
       THEN runPc' = "failed to parse spec: invalid OpenAPI spec" /\ api' = api
       ELSE \E ords \in ConvertOrders :
               LET converted == convertToAPI(doc.arg, ords)
               IN  IF converted = IndexPanic
                   THEN runPc' = "panicked" /\ api' = api
                   ELSE runPc' = "Generate" /\ api' = converted
    /\ UNCHANGED <<cli, parseVars, called, endpoints, grouped, composeVars,
                   renderVars, walkVars>>

\* gen := generator.New(cfg, api); gen.Generate() is entered
CallGenerate ==
    /\ runPc = "Generate"
    /\ genPc = "idle"
    /\ genPc' = "start"
    /\ runPc' = "in Generate"
    /\ UNCHANGED <<cli, parseVars, docVars, files, visited, genErr,
                   renderVars, walkVars, orderVars>>

\* Generate has returned (or has panicked) and run ends
ReturnFromGenerate ==
    /\ runPc = "in Generate"
    /\ genPc \in {"done", "failed", "panicked"}
    /\ runPc' = CASE genPc = "done" -> "returned nil"
                  [] genPc = "failed" -> "failed to generate: " \o genErr
                  [] genPc = "panicked" -> "panicked"
    /\ UNCHANGED <<cli, parseVars, composeVars, renderVars, walkVars, orderVars>>

RunNext ==
    \/ LoadConfig \/ ValidateConfig \/ ParseSource \/ CallGenerate
    \/ MkdirAll \/ MkdirAllFails
    \/ WriteEndpointFile
    \/ WriteIndex \/ WriteIndexFails
    \/ ReturnFromGenerate

SpecRun == RunInit /\ [][RunNext]_vars

(***************************************************************************)
(* Reading a run: how it ended, and what it left on disk.                  *)
(***************************************************************************)
\* run has returned an error before Generate was called
FailedBeforeGenerate ==
    runPc \in { "failed to load config", "source is required",
                "failed to parse spec: failed to load OpenAPI spec",
                "failed to parse spec: invalid OpenAPI spec" }

\* llms.txt of this run is on disk
IndexWritten == FilepathJoin(cfg.Output, "llms.txt") \in DOMAIN files

\* the file of every endpoint is on disk and the loop has ended
AllEndpointFilesWritten ==
    /\ visited = 1..Len(endpoints)
    /\ \A i \in 1..Len(endpoints) :
          FilepathJoin(FilepathJoin(cfg.Output, "endpoints"),
                       getEndpointFilename(endpoints[i])) \in DOMAIN files

(***************************************************************************)
(* C24: a failure at a boundary step aborts the whole run.  When loading   *)
(* the configuration, or loading or validating the document, fails,        *)
(* Generate is never called and run takes no further step; when creating   *)
(* the output directory or writing an endpoint file fails, Generate        *)
(* returns that error at once -- it writes nothing more -- and llms.txt is *)
(* not written in that run; llms.txt is written only after every endpoint  *)
(* file has been written.                                                  *)
(***************************************************************************)
C24_FailureAbortsRun ==
    /\ [](FailedBeforeGenerate => genPc = "idle" /\ files = <<>> /\ called = {})
    /\ [][~FailedBeforeGenerate]_vars
    /\ [](genPc = "failed" /\ genErr # "failed to write llms.txt" => ~IndexWritten)
    /\ [][genPc = "failed" => genPc' = "failed" /\ files' = files /\ genErr' = genErr]_vars
    /\ [](cfg # Nil /\ IndexWritten => AllEndpointFilesWritten)

\* a run whose second endpoint file could not be written: one file is on
\* disk, llms.txt is not, and run has returned the error of Generate
C24_Witness ==
    /\ HasPrefix(runPc, "failed to generate: failed to write ")
    /\ Cardinality(visited) = 2
    /\ Cardinality(DOMAIN files) = 1
    /\ ~IndexWritten

(***************************************************************************)
(* Reading a field table: its rows, and the row the rules give for a       *)
(* property.                                                               *)
(***************************************************************************)
\* the rows of a field table below its two header lines
TableRows(text) ==
    LET ls == Lines(text)
    IN  SelectSeq(SubSeq(ls, 3, Len(ls)), LAMBDA l : l # "")

\* the type column the rules give for the property prop
TypeColumn(prop) ==
    IF prop.Type = "array" /\ prop.Items # Nil THEN "array[" \o prop.Items.Type \o "]"
    ELSE IF prop.Format # "" THEN prop.Type \o " (" \o prop.Format \o ")"
    ELSE prop.Type

\* the description column the rules give for the property prop
DescriptionColumn(prop) ==
    IF Len(prop.Enum) > 0
    THEN prop.Description \o " Values: " \o Join([i \in DOMAIN prop.Enum |->
                                                    "'" \o prop.Enum[i] \o "'"], ", ")
    ELSE prop.Description

(***************************************************************************)
(* C25: generateFieldsTable returns the empty text when the schema is nil  *)
(* or has no properties; otherwise the table has exactly one row per       *)
(* direct property and none for the properties of nested objects; the      *)
(* type column of a row is array[<items type>] for an array with items,    *)
(* else type (format) when a format is present, else the type alone, and   *)
(* the description is followed by " Values: " and the back-quoted enum     *)
(* values when the property has an enum.  (A call that panics on a nil     *)
(* child returns no text.)                                                 *)
(***************************************************************************)
C25_OneRowPerDirectProperty ==
    \A text \in { tblOut[i] : i \in DOMAIN tblOut } \ {Panic} :
        IF schema = Nil \/ MapLen(schema.Properties) = 0 THEN text = ""
        ELSE LET rows == TableRows(text)
             IN  /\ HasPrefix(text, "| Field | Type | Description |\n|-")
                 /\ Len(rows) = MapLen(schema.Properties)
                 /\ \A name \in DOMAIN schema.Properties :
                       \E i \in DOMAIN rows :
                           rows[i] = "| " \o name \o " | "
                                     \o TypeColumn(schema.Properties[name]) \o " | "
                                     \o DescriptionColumn(schema.Properties[name]) \o " |"

\* the table of an object with an enum property, an array with items and a
\* format, an array with a format only and a nested object
C25_Witness ==
    /\ schema \in TableSchemas
    /\ Len(tblOut) > 0
    /\ Len(TableRows(tblOut[1])) = 4
    /\ Index(tblOut[1], "| B | object |  |\n") > 0
    /\ Index(tblOut[1], "| a | string | Sort order Values: 'asc', 'desc' |\n") > 0
    /\ Index(tblOut[1], "| ab | array[integer] |  |\n") > 0
    /\ Index(tblOut[1], "| b | array (csv) |  |\n") > 0

(***************************************************************************)
(* Reading an example as JSON text: brackets opened and closed, and the    *)
(* element of an array that is opened at the end of a line.                *)
(***************************************************************************)
\* how many times sub occurs in text
Count(text, sub) == Len(Split(text, sub)) - 1

\* every array opened at the end of a line holds an element on the next
\* line, and every object and array opened is closed
WellFormed(text) ==
    LET ls == Lines(text)
    IN  /\ \A i \in DOMAIN ls :
              HasSuffix(ls[i], "[") =>
                  /\ i < Len(ls)
                  /\ Indent(ls[i + 1]) < Len(ls[i + 1])
        /\ Count(text, "[") = Count(text, "]")
        /\ Count(text, "{") = Count(text, "}")

(***************************************************************************)
(* C26: every example renderJSONSchema produces from a non-nil schema is   *)
(* well-formed: each array it opens is either [] or holds a non-empty      *)
(* element text, and each object or array it opens is closed; also when    *)
(* an array of objects sits exactly at the depth ceiling, where the items  *)
(* are no longer expanded.                                                 *)
(***************************************************************************)
C26_ExamplesWellFormed ==
    schema # Nil =>
        \A text \in { exOut[i] : i \in DOMAIN exOut } :
            WellFormed(text)

(***************************************************************************)
(* C27: getEndpointFilename gives distinct file names to distinct          *)
(* endpoints of one API (endpoints that differ in method or in path), so   *)
(* no endpoint file written by Generate is overwritten by the file of      *)
(* another endpoint: when Generate has returned nil, there are as many     *)
(* files under endpoints/ as the API has distinct endpoints.               *)
(***************************************************************************)
C27_DistinctFilenames ==
    genPc = "done" =>
        /\ \A i, j \in DOMAIN endpoints :
              (endpoints[i].Method # endpoints[j].Method
                  \/ endpoints[i].Path # endpoints[j].Path)
              => getEndpointFilename(endpoints[i]) # getEndpointFilename(endpoints[j])
        /\ Cardinality(EndpointFileNames)
              = Cardinality({ <<endpoints[i].Method, endpoints[i].Path>> :
                                i \in DOMAIN endpoints })

(***************************************************************************)
(* Reading a command line: the value an option has before the flags are    *)
(* applied, and whether its flag was given.                                *)
(***************************************************************************)
\* the configuration loadConfig starts from: the config file's, or the defaults
ConfigBefore(c) ==
    IF FlagVar(c, "config") # "" THEN LoadFromFile(c.file) ELSE DefaultConfig

\* the field of the configuration that the flag name sets
FieldOf(name) ==
    CASE name = "output" -> "Output"
      [] name = "title" -> "Title"
      [] name = "baseURL" -> "BaseURL"
      [] name = "language" -> "Language"
      [] name = "skipValidation" -> "SkipValidation"

OptionFlags == {"output", "title", "baseURL", "language", "skipValidation"}

(***************************************************************************)
(* C28: loadConfig keeps every value set in the config file (output,       *)
(* title, base URL, language, skipValidation) unless the matching flag is  *)
(* given on the command line: a flag left at its default never replaces    *)
(* the value read from the config file, and a flag given explicitly        *)
(* always does.                                                            *)
(***************************************************************************)
C28_FlagsOverrideOnlyWhenGiven ==
    runPc = "Validate" =>
        \A name \in OptionFlags :
            cfg[FieldOf(name)] = IF name \in DOMAIN cli.flags THEN cli.flags[name]
                                 ELSE ConfigBefore(cli)[FieldOf(name)]

(***************************************************************************)
(* C29: convertParameter, and so Parse, does not fail for a parameter      *)
(* whose schema declares no type (a schema with only an enum or a          *)
(* composition keyword): the resulting Parameter has an empty Type and     *)
(* the other fields are filled as usual; a document with such a parameter  *)
(* is converted to an API.                                                 *)
(***************************************************************************)
C29_TypelessParameterConverted ==
    \A i \in DOMAIN parsed :
        /\ parsed[i] # IndexPanic
        /\ doc.fn = "convertParameter" =>
              /\ parsed[i].Name = doc.arg.Name
              /\ parsed[i].In = doc.arg.In
              /\ parsed[i].Required = doc.arg.Required
              /\ (doc.arg.Schema # Nil /\ doc.arg.Schema.Value # Nil) =>
                    /\ parsed[i].Type = IF Len(doc.arg.Schema.Value.Type) = 0 THEN ""
                                        ELSE doc.arg.Schema.Value.Type[1]
                    /\ parsed[i].Format = doc.arg.Schema.Value.Format
                    /\ parsed[i].Enum = StringsOf(doc.arg.Schema.Value.Enum)

(***************************************************************************)
(* C30: for one OpenAPI document, convertToAPI yields the security         *)
(* schemes in the same order on every run, so the authentication header    *)
(* chosen for the command example and the order of the entries in the      *)
(* Authentication section of llms.txt are the same on every run, also      *)
(* when the document declares both a bearer scheme and an                  *)
(* apiKey-in-header scheme.                                                *)
(***************************************************************************)
C30_SchemeOrderSameOnEveryRun ==
    (doc # Nil /\ doc.fn = "convertToAPI") =>
        \A i, j \in DOMAIN parsed :
            (parsed[i] # IndexPanic /\ parsed[j] # IndexPanic) =>
                /\ parsed[i].SecuritySchemes = parsed[j].SecuritySchemes
                /\ AuthHeader(parsed[i].SecuritySchemes)
                      = AuthHeader(parsed[j].SecuritySchemes)
                /\ IndexHead(parsed[i], DefaultConfig) = IndexHead(parsed[j], DefaultConfig)

====
